---- MODULE Spec2Model ----
(***************************************************************************)
(* kiss-drop: the resumable chunked-upload subsystem.                      *)
(*                                                                         *)
(* UploadManager (upload.go, as reproduced in DESIGN.md), the chunked-     *)
(* upload HTTP handlers (HandleUploadInit, HandleUploadChunk,              *)
(* HandleUploadComplete) and Storage.CreateShare, run by request           *)
(* goroutines and by the cleanupLoop goroutine.  A handler is cut into     *)
(* steps at the points where another goroutine can see or change what it   *)
(* works on: its lock acquisitions and its file-system calls.  Calls that  *)
(* commute with every step of the other goroutines are joined to the step  *)
(* before them.                                                            *)
(*                                                                         *)
(* Time is counted in days.  GenerateID draws 8 random base62 symbols;     *)
(* here it hands out identifiers that were never used before (the         *)
(* collision-free case).  A request body is written by io.Copy in one      *)
(* piece, so a chunk file holds nothing (created or truncated) or a whole  *)
(* body.                                                                   *)
(*                                                                         *)
(* The specifications run the same actions; the three main ones are:       *)
(*   Spec      two request goroutines, one session of one or two chunks,   *)
(*             two possible bodies; no clock and no sweep;                 *)
(*   SpecLife  two request goroutines, the clock and cleanupStale; one     *)
(*             session of one chunk, one possible body;                    *)
(*   SpecSweep one request goroutine, the clock and cleanupStale; two      *)
(*             sessions of one chunk, one possible body.                   *)
(***************************************************************************)
EXTENDS Integers, Sequences, FiniteSets, TLC

\* ---------------------------------------------------------------- bounds
MaxSessions == 2
MaxShares == 2
MaxTime == 2
MaxIndex == 1
MaxTicks == 1
MaxDigits == 6
\* len(p) of a Read, in bytes
ReadBufLen == 1
\* io.EOF returns of one chunkReader that are counted
MaxEOFs == 2

\* ------------------------------------------------------ program constants
defaultChunkSize == 5242880
uploadTimeout == 1
defaultExpiry == 1

\* ------------------------------------------------------------------ int64
\* An int64 is kept as its 64 bits, low end first: three limbs of 20 bits and
\* one of 4 bits (two's complement).  defaultChunkSize is 5 * 2^20.
Limb == defaultChunkSize \div 5
TopLimb == 16

\* The int64 of a number n, 0 <= n < 2^31
Nat64(n) == <<n % Limb, n \div Limb, 0, 0>>

\* x + y as Go computes it: the carry out of bit 63 is dropped
Add64(x, y) ==
    LET s1 == x[1] + y[1]
        s2 == x[2] + y[2] + s1 \div Limb
        s3 == x[3] + y[3] + s2 \div Limb
        s4 == x[4] + y[4] + s3 \div Limb
    IN <<s1 % Limb, s2 % Limb, s3 % Limb, s4 % TopLimb>>

\* -x
Neg64(x) ==
    Add64(<<Limb - 1 - x[1], Limb - 1 - x[2], Limb - 1 - x[3], TopLimb - 1 - x[4]>>, Nat64(1))

\* x < 0: bit 63
IsNeg64(x) == x[4] >= TopLimb \div 2

\* Faulty variant: no value counts as zero
IsZero64Never(x) == FALSE

IsZero64(x) == x = Nat64(0)

\* The bits of x read as an unsigned number, divided by defaultChunkSize:
\* 20 bits off the low end, then long division by 5
UDivChunk(x) ==
    LET t3 == (x[4] % 5) * Limb + x[3]
        t2 == (t3 % 5) * Limb + x[2]
    IN <<t2 \div 5, t3 \div 5, x[4] \div 5, 0>>

\* x / chunkSize as Go computes it: the quotient is truncated toward zero
DivChunk64(x) == IF IsNeg64(x) THEN Neg64(UDivChunk(Neg64(x))) ELSE UDivChunk(x)

\* The number an int64 below 2^31 stands for
NumOf(x) == x[1] + x[2] * Limb

\* x * k as Go computes it, for a factor k below 2^11
MulSmall64(x, k) ==
    LET s1 == x[1] * k
        s2 == x[2] * k + s1 \div Limb
        s3 == x[3] * k + s2 \div Limb
        s4 == x[4] * k + s3 \div Limb
    IN <<s1 % Limb, s2 % Limb, s3 % Limb, s4 % TopLimb>>

\* The bits of x read as an unsigned number, divided by k below 2^11
UDivSmall64(x, k) ==
    LET t3 == (x[4] % k) * Limb + x[3]
        t2 == (t3 % k) * Limb + x[2]
        t1 == (t2 % k) * Limb + x[1]
    IN <<t1 \div k, t2 \div k, t3 \div k, x[4] \div k>>

\* 24 * time.Hour in nanoseconds is 2^16 * 27 * 5^11: its factors below 2^11
DayFactors == <<1024, 64, 27, 625, 625, 125>>

RECURSIVE MulBy(_, _, _)
MulBy(x, fs, i) == IF i > Len(fs) THEN x ELSE MulBy(MulSmall64(x, fs[i]), fs, i + 1)

RECURSIVE UDivBy(_, _, _)
UDivBy(x, fs, i) == IF i > Len(fs) THEN x ELSE UDivBy(UDivSmall64(x, fs[i]), fs, i + 1)

\* time.Duration(days) * 24 * time.Hour, in int64 nanoseconds
DurationOfDays(days) == MulBy(Nat64(days), DayFactors, 1)

\* The whole days of a Duration, truncated toward zero
DaysOf(d) ==
    IF IsNeg64(d) THEN 0 - NumOf(UDivBy(Neg64(d), DayFactors, 1))
    ELSE NumOf(UDivBy(d, DayFactors, 1))

Digits == <<"0", "1", "2", "3", "4", "5", "6", "7", "8", "9">>

IsDigit(c) == \E d \in 1..Len(Digits) : Digits[d] = c

DigitOf(c) == (CHOOSE d \in 1..Len(Digits) : Digits[d] = c) - 1

RECURSIVE DecimalOf(_, _, _)
DecimalOf(s, i, acc) ==
    IF i > Len(s) THEN acc ELSE DecimalOf(s, i + 1, acc * 10 + DigitOf(s[i]))

\* strconv.Atoi for strings of at most MaxDigits digits: an optional sign,
\* then digits only and at least one
Atoi(s) ==
    LET signed == Len(s) > 0 /\ s[1] \in {"+", "-"}
        body == IF signed THEN Tail(s) ELSE s
        n == DecimalOf(body, 1, 0)
    IN IF Len(body) = 0 \/ Len(body) > MaxDigits \/ \E i \in 1..Len(body) : ~IsDigit(body[i])
       THEN [err |-> TRUE, n |-> 0]
       ELSE [err |-> FALSE, n |-> IF signed /\ s[1] = "-" THEN 0 - n ELSE n]

\* The largest int64, 2^63 - 1
MaxInt64 == <<Limb - 1, Limb - 1, Limb - 1, TopLimb \div 2 - 1>>

Procs == {1, 2}
IDs == 1..MaxSessions
ShareIDs == 1..MaxShares
UnknownID == MaxSessions + 1
NoProc == 0
Sweeper == 0 - 1
NoSession == [none |-> TRUE]
NoMeta == [none |-> TRUE]
\* A nil *time.Time; a pointer to the time t is <<t>>
NoExpiry == <<>>

\* A nil *os.File; an open chunk file is the index of its chunk
NoFile == 0 - 1

\* The chunkReader literal of AssembleFile, before its first Read
NewChunkReader(id) ==
    [uploadID  |-> id,
     chunkIdx  |-> 0,
     chunkFile |-> NoFile,
     offset    |-> 0,
     n         |-> 0,
     err       |-> "none",
     opened    |-> <<>>,
     open      |-> {},
     out       |-> <<>>,
     eofs      |-> 0]

\* No chunkReader is held
NoReader == NewChunkReader(0)

\* The empty password_hash, and the empty password of a form
NoHash == <<>>
NoPassword == <<>>

\* The passwords clients type, and the salt rand.Read yields
Passwords == {<<"a">>, <<"b">>}
Salt == 1

\* argon2.IDKey(password, salt, ...): one key for each password and salt
IDKey(pw, salt) == <<"argon2id", pw, salt>>

\* HashPassword: the salt and the key as salt:hash
HashPassword(pw, salt) == <<salt, IDKey(pw, salt)>>

\* VerifyPassword: the key of the password under the stored salt is the
\* stored key
VerifyPassword(pw, encoded) ==
    IF Len(encoded) # 2 THEN FALSE ELSE IDKey(pw, encoded[1]) = encoded[2]

\* The keys of the HMAC: the server's secret and one a client makes up
Secret == "secret"
Guess == "guess"

\* Auth.sign: the HMAC-SHA256 of the value under the key
Sign(key, value) == <<"hmac", key, value>>

\* A request without a cookie
NoCookie == [name |-> 0, value |-> <<>>, sig |-> <<>>]

\* The cookie SetUnlockCookie sets for a share at time t: named after the
\* share, with the value shareID:timestamp and its signature
UnlockCookie(sid, t) ==
    [name |-> sid, value |-> <<sid, t>>, sig |-> Sign(Secret, <<sid, t>>)]

\* Faulty variant: the signature alone decides
IsUnlockedAnyShare(c, sid) ==
    IF c.name # sid THEN FALSE ELSE c.sig = Sign(Secret, c.value)

\* Auth.IsUnlocked: the request's cookie of the share's name, its signature
\* checked against the value, and the value's prefix shareID:
IsUnlocked(c, sid) ==
    IF c.name # sid THEN FALSE
    ELSE IF c.sig # Sign(Secret, c.value) THEN FALSE
    ELSE IF Len(c.value) = 0 THEN FALSE
    ELSE c.value[1] = sid

\* GenerateID's alphabet, its length 62, and the length 8 of an identifier
Alphabet ==
    <<"0", "1", "2", "3", "4", "5", "6", "7", "8", "9",
      "A", "B", "C", "D", "E", "F", "G", "H", "I", "J", "K", "L", "M",
      "N", "O", "P", "Q", "R", "S", "T", "U", "V", "W", "X", "Y", "Z",
      "a", "b", "c", "d", "e", "f", "g", "h", "i", "j", "k", "l", "m",
      "n", "o", "p", "q", "r", "s", "t", "u", "v", "w", "x", "y", "z">>
AlphabetLen == 62
IDLen == 8

\* The values of a byte
Bytes == 0..255

\* alphabet[b % 62]
SymbolOf(b) == Alphabet[(b % AlphabetLen) + 1]

\* What rand.Read can fill in, as far as it is looked at: any byte at the
\* first or the last position, zeros at the others
RandomBytes ==
    {[i \in 1..IDLen |-> IF i = k THEN b ELSE 0] : k \in {1, IDLen}, b \in Bytes}

\* The expiry policies a client names, as the characters of the string
EmptyPolicy == <<>>
DefaultPolicy == <<"d", "e", "f", "a", "u", "l", "t">>
NeverPolicy == <<"n", "e", "v", "e", "r">>
OneDay == <<"1">>
TwoDays == <<"2">>
ZeroDays == <<"0">>
MinusOneDay == <<"-", "1">>
DaysWithUnit == <<"1", "d">>
ManyDays == <<"1", "0", "6", "7", "5", "2">>
Policies == {EmptyPolicy, DefaultPolicy, NeverPolicy, OneDay, TwoDays, ZeroDays,
             MinusOneDay, DaysWithUnit, ManyDays}
SweptPolicies == {DefaultPolicy, NeverPolicy, TwoDays, ManyDays}

\* The expiry the upload handlers work out from the policy string at time t:
\* "" and "default" give t + defaultExpiry when that is positive, "never"
\* and whatever Atoi rejects or finds not positive give nil, and a number of
\* days gives t.Add(time.Duration(days) * 24 * time.Hour).
ExpiryOf(policy, t) ==
    IF policy = EmptyPolicy \/ policy = DefaultPolicy
    THEN IF defaultExpiry > 0 THEN <<t + defaultExpiry>> ELSE NoExpiry
    ELSE IF policy # NeverPolicy
         THEN IF ~Atoi(policy).err /\ Atoi(policy).n > 0
              THEN <<t + DaysOf(DurationOfDays(Atoi(policy).n))>>
              ELSE NoExpiry
         ELSE NoExpiry

\* What clients send: declared sizes, chunk indexes, request bodies.
FileSizes == {Nat64(0), Nat64(1), Nat64(defaultChunkSize + 1)}
SmallSizes == {Nat64(0), Nat64(1)}
InitSizes ==
    {Neg64(Nat64(1)), Nat64(0), Nat64(1),
     Nat64(defaultChunkSize - 1), Nat64(defaultChunkSize), Nat64(defaultChunkSize + 1),
     Nat64(2 * defaultChunkSize), Nat64(2 * defaultChunkSize + 1), MaxInt64}
Indexes == (0 - 1)..MaxIndex
ChunkData == {<<1>>, <<2>>}
\* Chunk bodies for the chunk reader: an empty chunk, and one longer than the
\* buffer of a Read
ReaderBodies == {<<>>, <<1>>, <<2, 3>>}
OneBody == {<<1>>}

\* How the handling of one entry of CleanupExpired's loop turns out
SweepOutcomes == {"ok", "readFails", "deleteFails"}

\* How the first calls of CreateShare turn out
OpenOutcomes == {"ok", "mkdirFails", "createFails"}

VARIABLES
    now,        \* time.Now()
    table,      \* keys of um.sessions
    heap,       \* the *UploadSession objects, by ID (they outlive their table entry)
    smu,        \* holder of session.mu, per session object
    ummu,       \* write holder of um.mu
    files,      \* uploads/<id>/chunk_NNNNN: files[id][i] for every existing scratch dir
    shares,     \* shares/<id>/: the file written so far and meta.json
    nextID,     \* upload IDs handed out so far
    nextShare,  \* share IDs handed out so far
    pc,         \* where each request goroutine stands
    op,         \* the request it serves: "init", "chunk" or "complete"
    uploadID,   \* its uploadID
    fileSize,   \* init: the declared size
    expiresIn,  \* init: the expiresIn of the request
    password,   \* upload, unlock: the password of the request
    token,      \* download: the unlock cookie of the request; unlock: the one set
    issued,     \* history: the cookies SetUnlockCookie has set
    asked,      \* history: the password of the init request of each session
    idBytes,    \* GenerateID: the bytes rand.Read has filled in
    idSymbols,  \* GenerateID: the identifier returned
    reader,     \* the chunkReader a caller holds, and what its Read calls have done
    index,      \* chunk: the index
    chunkIdx,   \* complete: chunkReader.chunkIdx
    shareID,    \* complete: the share CreateShare is writing
    expiresAt,  \* complete: the expiresAt handed to CreateShare
    result,     \* the outcome it reports
    swpc,       \* where cleanupStale stands
    swNow,      \* cleanupStale's now
    swTodo,     \* sessions its range loop has not visited yet
    swTick,     \* a tick waits in the channel of cleanupLoop's ticker
    swTicks,    \* history: ticks that ticker has delivered
    sessionSweeps, \* history: calls of cleanupStale that cleanupLoop has made
    shpc,       \* where the share cleanup worker stands
    shNow,      \* CleanupExpired's now
    shTodo,     \* directory entries its loop has not visited yet
    shTick,     \* a tick waits in the channel of the worker's ticker
    shTicks,    \* history: ticks that ticker has delivered
    shareSweeps, \* history: calls of CleanupExpired that the worker has made
    swFailed,   \* history: sessions whose os.RemoveAll failed in this cleanupStale
    shFailed,   \* history: shares whose handling failed in this CleanupExpired
    shExpired,  \* history: shares that were expired when this CleanupExpired began
    created,    \* history: shares created from each session
    sent,       \* history: body of the last successful ReceiveChunk per index
    order,      \* history: indices in the order they were first received
    raced,      \* history: completions whose chunks were written to meanwhile
    overlapped, \* history: sessions that had two completions in progress at once
    completed,  \* history: sessions whose completion finished its Cleanup
    accepted,   \* history: when ReceiveChunk last returned nil per session, -1 if never
    replaced    \* history: indices whose bytes a later ReceiveChunk replaced by other bytes

shared == <<now, table, heap, smu, ummu, files, shares, nextID, nextShare>>
auth == <<password, token, issued, asked>>
gen == <<idBytes, idSymbols>>
locals == <<pc, op, uploadID, fileSize, expiresIn, index, chunkIdx, shareID, expiresAt, result, auth, gen, reader>>
sessTimer == <<swTick, swTicks, sessionSweeps>>
shareWorker == <<shpc, shNow, shTodo, shTick, shTicks, shareSweeps>>
sweepLog == <<swFailed, shFailed, shExpired>>
sweep == <<swpc, swNow, swTodo, sessTimer, shareWorker, sweepLog>>
history == <<created, sent, order, raced, overlapped, completed, accepted, replaced>>
vars == <<shared, locals, sweep, history>>

\* ------------------------------------------------------------- helpers
Put(f, k, v) == [x \in DOMAIN f \cup {k} |-> IF x = k THEN v ELSE f[x]]
Drop(f, k) == [x \in DOMAIN f \ {k} |-> f[x]]

\* Faulty variant: nothing is removed
RemoveAllNothing(fs, id) == fs

\* Faulty variant: the parent directory is removed
RemoveAllSiblings(fs, id) == <<>>

\* os.RemoveAll(dir): the directory and everything in it
RemoveAll(fs, id) == Drop(fs, id)

\* Faulty variant: the entry stays in the map
DeleteSessionNot(t, id) == t

\* delete(um.sessions, id)
DeleteSession(t, id) == t \ {id}

\* um.sessions[uploadID] under um.mu.RLock: nil for an unknown key
GetSession(id) == IF id \in table THEN heap[id] ELSE NoSession

\* um.mu.RLock() / um.mu.Lock() can be taken: no writer holds um.mu
UmFree == ummu = NoProc

\* Faulty variant: the lock is not waited for
SessionFreeAlways(id) == TRUE

\* Faulty variant: one lock for all sessions
SessionFreeGlobal(id) == \A other \in IDs : smu[other] = NoProc

\* session.mu.Lock() can be taken
SessionFree(id) == smu[id] = NoProc

\* InitUpload's chunk count: int((fileSize + chunkSize - 1) / chunkSize), and
\* 1 in place of 0.  An int64 (int has 64 bits).
TotalChunksOf(size) ==
    LET n == DivChunk64(Add64(size, Nat64(defaultChunkSize - 1)))
    IN IF IsZero64(n) THEN Nat64(1) ELSE n

\* make([]bool, n) panics for a negative n
MakePanics(n) == IsNeg64(n)

\* The session literal of InitUpload
NewSession(size, t, policy) ==
    [FileSize     |-> size,
     ChunkSize    |-> defaultChunkSize,
     ExpiresIn    |-> policy,
     TotalChunks  |-> NumOf(TotalChunksOf(size)),
     ReceivedMask |-> [i \in 0..(NumOf(TotalChunksOf(size)) - 1) |-> FALSE],
     LastActivity |-> t]

\* Faulty variant: the upper bound is off by one
ValidIndexOffByOne(i, n) == i >= 0 /\ i <= n

\* ReceiveChunk's range check
ValidIndex(i, n) == i >= 0 /\ i < n

\* Faulty variant: every index gets the name of chunk 0
chunkPathOfFirst(i) == 0

\* The name of chunk i inside the session directory
chunkPath(i) == i

\* Faulty variant: a second write to an index clears its mask entry
MarkReceivedToggle(s, i, t) == [s EXCEPT !.ReceivedMask[i] = ~@, !.LastActivity = t]

\* Faulty variant: LastActivity is left as it was
MarkReceivedMaskOnly(s, i, t) == [s EXCEPT !.ReceivedMask[i] = TRUE]

\* ReceiveChunk's bookkeeping after a complete write
MarkReceived(s, i, t) == [s EXCEPT !.ReceivedMask[i] = TRUE, !.LastActivity = t]

\* Faulty variant: one received chunk is enough
IsCompleteAny(s) == \E i \in DOMAIN s.ReceivedMask : s.ReceivedMask[i]

\* IsComplete's scan of the mask
IsComplete(s) == \A i \in DOMAIN s.ReceivedMask : s.ReceivedMask[i]

\* um.IsComplete(uploadID): false for an unknown key
IsCompleteOf(id) == IF GetSession(id) = NoSession THEN FALSE ELSE IsComplete(GetSession(id))

\* Faulty variant: every entry of the mask is counted
ReceivedCountAll(s) == Cardinality(DOMAIN s.ReceivedMask)

\* ReceivedCount's scan of the mask
ReceivedCount(s) == Cardinality({i \in DOMAIN s.ReceivedMask : s.ReceivedMask[i]})

\* um.ReceivedCount(uploadID): 0 for an unknown key
ReceivedCountOf(id) == IF GetSession(id) = NoSession THEN 0 ELSE ReceivedCount(GetSession(id))

\* Faulty variant: the operands of Sub are swapped
StaleSwapped(t, lastActivity) == lastActivity - t > uploadTimeout

\* cleanupStale's test
Stale(t, lastActivity) == t - lastActivity > uploadTimeout

\* Faulty variant: the chunk goes in front of what was copied so far
AppendChunkInFront(file, chunk) == chunk \o file

\* io.Copy(dst, reader): what one chunk adds to the share's file
AppendChunk(file, chunk) == file \o chunk

\* A chunk file of the session exists at its path
HasChunk(id, i) == id \in DOMAIN files /\ chunkPath(i) \in DOMAIN files[id]

\* Faulty variant: a chunk file that is not there reads as an empty one
ReadChunkSkipMissing(id, k) ==
    IF HasChunk(id, k)
    THEN [err |-> FALSE, bytes |-> files[id][chunkPath(k)]]
    ELSE [err |-> FALSE, bytes |-> <<>>]

\* chunkReader.Read for chunk k: os.Open(chunkPath) and the file's bytes up to
\* its EOF, or the error of os.Open
ReadChunk(id, k) ==
    IF HasChunk(id, k)
    THEN [err |-> FALSE, bytes |-> files[id][chunkPath(k)]]
    ELSE [err |-> TRUE, bytes |-> <<>>]

\* chunkFile.Read(p) of the open chunk file: the bytes from the file's offset
\* on, at most len(p) of them; none of them is io.EOF
FileRead(r) ==
    LET content == IF HasChunk(r.uploadID, r.chunkFile)
                   THEN files[r.uploadID][chunkPath(r.chunkFile)]
                   ELSE <<>>
        last == IF Len(content) < r.offset + ReadBufLen THEN Len(content) ELSE r.offset + ReadBufLen
    IN SubSeq(content, r.offset + 1, last)

\* Faulty variant: the io.EOF of an empty chunk file is handed to the caller
RECURSIVE ReadStopsAtEmpty(_, _)
ReadStopsAtEmpty(r, readOK) ==
    IF r.chunkFile # NoFile
    THEN IF ~readOK
         THEN [r EXCEPT !.n = 0, !.err = "read"]
         ELSE IF FileRead(r) = <<>> /\ r.offset = 0
         THEN [r EXCEPT !.n = 0, !.err = "EOF", !.eofs = IF @ < MaxEOFs THEN @ + 1 ELSE @]
         ELSE IF FileRead(r) = <<>>
         THEN ReadStopsAtEmpty([r EXCEPT !.chunkFile = NoFile, !.offset = 0,
                                         !.chunkIdx = @ + 1, !.open = @ \ {r.chunkFile}], readOK)
         ELSE [r EXCEPT !.offset = @ + Len(FileRead(r)), !.out = @ \o FileRead(r),
                        !.n = Len(FileRead(r)), !.err = "nil"]
    ELSE IF r.chunkIdx >= heap[r.uploadID].TotalChunks
    THEN [r EXCEPT !.n = 0, !.err = "EOF", !.eofs = IF @ < MaxEOFs THEN @ + 1 ELSE @]
    ELSE IF ~HasChunk(r.uploadID, r.chunkIdx)
    THEN [r EXCEPT !.n = 0, !.err = "open"]
    ELSE ReadStopsAtEmpty([r EXCEPT !.chunkFile = r.chunkIdx,
                                    !.opened = Append(@, r.chunkIdx),
                                    !.open = @ \cup {r.chunkIdx}], readOK)

\* chunkReader.Read(p): the loop that reads from the open chunk file, closes
\* it at its io.EOF and goes on to the next index, opens the file of
\* chunkIdx when none is open, and returns io.EOF at chunkIdx >= TotalChunks.
\* r.n and r.err are what the call returns; opened, open, out and eofs record
\* the os.Open calls, the files not yet closed, the bytes returned and the
\* io.EOF returns so far.
RECURSIVE Read(_, _)
Read(r, readOK) ==
    IF r.chunkFile # NoFile
    THEN IF ~readOK
         THEN [r EXCEPT !.n = 0, !.err = "read"]
         ELSE IF FileRead(r) = <<>>
         THEN Read([r EXCEPT !.chunkFile = NoFile, !.offset = 0,
                             !.chunkIdx = @ + 1, !.open = @ \ {r.chunkFile}], readOK)
         ELSE [r EXCEPT !.offset = @ + Len(FileRead(r)), !.out = @ \o FileRead(r),
                        !.n = Len(FileRead(r)), !.err = "nil"]
    ELSE IF r.chunkIdx >= heap[r.uploadID].TotalChunks
    THEN [r EXCEPT !.n = 0, !.err = "EOF", !.eofs = IF @ < MaxEOFs THEN @ + 1 ELSE @]
    ELSE IF ~HasChunk(r.uploadID, r.chunkIdx)
    THEN [r EXCEPT !.n = 0, !.err = "open"]
    ELSE Read([r EXCEPT !.chunkFile = r.chunkIdx,
                        !.opened = Append(@, r.chunkIdx),
                        !.open = @ \cup {r.chunkIdx}], readOK)

\* Request goroutines that are inside HandleUploadComplete for session id
Completing(id) ==
    {q \in Procs : op[q] = "complete" /\ uploadID[q] = id /\ pc[q] \notin {"idle", "done"}}

\* Completions of session id that have passed IsComplete and not yet written meta.json
Assembling(id) ==
    {q \in Procs : uploadID[q] = id /\ pc[q] = "csRead"}

TypeOK ==
    /\ now \in 0..MaxTime
    /\ table \subseteq IDs
    /\ DOMAIN files \subseteq IDs
    /\ DOMAIN shares \subseteq ShareIDs
    /\ \A id \in table : heap[id] # NoSession
    /\ smu \in [IDs -> Procs \cup {NoProc}]
    /\ ummu \in {NoProc, Sweeper}

Init ==
    /\ now = 0
    /\ table = {}
    /\ heap = [id \in IDs |-> NoSession]
    /\ smu = [id \in IDs |-> NoProc]
    /\ ummu = NoProc
    /\ files = <<>>
    /\ shares = <<>>
    /\ nextID = 0
    /\ nextShare = 0
    /\ pc = [p \in Procs |-> "idle"]
    /\ op = [p \in Procs |-> "none"]
    /\ uploadID = [p \in Procs |-> 0]
    /\ fileSize = [p \in Procs |-> Nat64(0)]
    /\ expiresIn = [p \in Procs |-> EmptyPolicy]
    /\ password = [p \in Procs |-> NoPassword]
    /\ token = [p \in Procs |-> NoCookie]
    /\ issued = {}
    /\ asked = [id \in IDs |-> NoPassword]
    /\ idBytes = <<>>
    /\ idSymbols = <<>>
    /\ reader = [p \in Procs |-> NoReader]
    /\ index = [p \in Procs |-> 0]
    /\ chunkIdx = [p \in Procs |-> 0]
    /\ shareID = [p \in Procs |-> 0]
    /\ expiresAt = [p \in Procs |-> NoExpiry]
    /\ result = [p \in Procs |-> "none"]
    /\ swpc = "idle"
    /\ swNow = 0
    /\ swTodo = {}
    /\ swTick = FALSE
    /\ swTicks = 0
    /\ sessionSweeps = 0
    /\ shpc = "start"
    /\ shNow = 0
    /\ shTodo = {}
    /\ shTick = FALSE
    /\ shTicks = 0
    /\ shareSweeps = 0
    /\ swFailed = {}
    /\ shFailed = {}
    /\ shExpired = {}
    /\ created = [id \in IDs |-> 0]
    /\ sent = [id \in IDs |-> <<>>]
    /\ order = [id \in IDs |-> <<>>]
    /\ raced = {}
    /\ overlapped = {}
    /\ completed = {}
    /\ accepted = [id \in IDs |-> 0 - 1]
    /\ replaced = [id \in IDs |-> {}]

\* The handler returns with an outcome: http.Error or the JSON response.
Finish(p, r) ==
    /\ pc' = [pc EXCEPT ![p] = "done"]
    /\ result' = [result EXCEPT ![p] = r]

Goto(p, l) ==
    /\ pc' = [pc EXCEPT ![p] = l]
    /\ UNCHANGED result

\* ------------------------------------------------------------- the clock
Tick ==
    /\ now < MaxTime
    /\ now' = now + 1
    /\ UNCHANGED <<table, heap, smu, ummu, files, shares, nextID, nextShare>>
    /\ UNCHANGED <<locals, sweep, history>>

\* ------------------------------------------------- POST /api/upload/init
\* Faulty variant: MkdirAll is left out
InitUploadBeginNoDir(p, mkdirOK, pool) ==
    IF mkdirOK /\ nextID + 1 \in pool
    THEN /\ nextID' = nextID + 1
         /\ uploadID' = [uploadID EXCEPT ![p] = nextID + 1]
         /\ Goto(p, "initInsert")
         /\ UNCHANGED files
    ELSE /\ Finish(p, "IOFailure")
         /\ UNCHANGED <<uploadID, nextID, files>>

\* InitUpload up to its MkdirAll: GenerateID and the scratch directory.
\* GenerateID fails or MkdirAll fails (or no identifier of the pool is left):
\* an error.
InitUploadBegin(p, mkdirOK, pool) ==
    IF mkdirOK /\ nextID + 1 \in pool
    THEN /\ nextID' = nextID + 1
         /\ uploadID' = [uploadID EXCEPT ![p] = nextID + 1]
         /\ files' = Put(files, nextID + 1, <<>>)
         /\ Goto(p, "initInsert")
    ELSE /\ Finish(p, "IOFailure")
         /\ UNCHANGED <<uploadID, nextID, files>>

\* HandleUploadInit: the validation of fileSize, then InitUpload.
InitRequest(p, size, mkdirOK, pool, policy, pw) ==
    /\ pc[p] = "idle"
    /\ op' = [op EXCEPT ![p] = "init"]
    /\ fileSize' = [fileSize EXCEPT ![p] = size]
    /\ expiresIn' = [expiresIn EXCEPT ![p] = policy]
    /\ password' = [password EXCEPT ![p] = pw]
    /\ asked' = IF ~(IsNeg64(size) \/ IsZero64(size)) /\ mkdirOK /\ nextID + 1 \in pool
                THEN [asked EXCEPT ![nextID + 1] = pw]
                ELSE asked
    /\ UNCHANGED <<gen, reader>>
    /\ UNCHANGED <<token, issued>>
    /\ IF IsNeg64(size) \/ IsZero64(size)
       THEN /\ Finish(p, "ValidationError")
            /\ UNCHANGED <<uploadID, nextID, files>>
       ELSE InitUploadBegin(p, mkdirOK, pool)
    /\ UNCHANGED <<now, table, heap, smu, ummu, shares, nextShare>>
    /\ UNCHANGED <<index, chunkIdx, shareID, expiresAt>>
    /\ UNCHANGED <<sweep, history>>

\* um.InitUpload(fileName, fileSize, ...) called on its own, with a size that
\* is not negative.
InitUploadCall(p, size, mkdirOK, pool, policy) ==
    /\ pc[p] = "idle"
    /\ ~IsNeg64(size)
    /\ op' = [op EXCEPT ![p] = "initUpload"]
    /\ fileSize' = [fileSize EXCEPT ![p] = size]
    /\ expiresIn' = [expiresIn EXCEPT ![p] = policy]
    /\ UNCHANGED <<auth, gen, reader>>
    /\ InitUploadBegin(p, mkdirOK, pool)
    /\ UNCHANGED <<now, table, heap, smu, ummu, shares, nextShare>>
    /\ UNCHANGED <<index, chunkIdx, shareID, expiresAt>>
    /\ UNCHANGED <<sweep, history>>

\* InitUpload: totalChunks, the session literal with make([]bool,
\* totalChunks), which panics for a negative count (the directory stays, the
\* server drops the connection); else um.sessions[id] = session under um.mu.
InitInsert(p) ==
    /\ pc[p] = "initInsert"
    /\ IF MakePanics(TotalChunksOf(fileSize[p]))
       THEN /\ Finish(p, "Panic")
            /\ UNCHANGED <<heap, table>>
       ELSE /\ UmFree
            /\ heap' = [heap EXCEPT ![uploadID[p]] = NewSession(fileSize[p], now, expiresIn[p])]
            /\ table' = table \cup {uploadID[p]}
            /\ Finish(p, "OK")
    /\ fileSize' = [fileSize EXCEPT ![p] = Nat64(0)]
    /\ expiresIn' = [expiresIn EXCEPT ![p] = EmptyPolicy]
    /\ UNCHANGED <<auth, gen, reader>>
    /\ UNCHANGED <<now, smu, ummu, files, shares, nextID, nextShare>>
    /\ UNCHANGED <<op, uploadID, index, chunkIdx, shareID, expiresAt>>
    /\ UNCHANGED <<sweep, history>>

\* ------------------------------- POST /api/upload/{uploadId}/chunk/{index}
\* HandleUploadChunk: the path is parsed, GetSession(uploadID); then
\* ReceiveChunk's own GetSession(uploadID).  Both are reads under um.mu.RLock
\* and either one finding no session ends the request.
ChunkRequest(p, id, i) ==
    /\ pc[p] = "idle"
    /\ UmFree
    /\ op' = [op EXCEPT ![p] = "chunk"]
    /\ uploadID' = [uploadID EXCEPT ![p] = id]
    /\ IF GetSession(id) = NoSession
       THEN /\ Finish(p, "NotFound")
            /\ UNCHANGED index
       ELSE /\ Goto(p, "rcLock")
            /\ index' = [index EXCEPT ![p] = i]
    /\ UNCHANGED <<shared, sweep, history>>
    /\ UNCHANGED <<fileSize, expiresIn, auth, gen, reader, chunkIdx, shareID, expiresAt>>

\* ReceiveChunk: session.mu.Lock(), the range check, os.Create(chunkPath).
\* os.Create fails when the session directory is gone, or on an I/O error;
\* it truncates an existing chunk file.  The deferred Unlock runs on return.
ReceiveChunkCreate(p, createOK) ==
    LET id == uploadID[p] IN
    /\ pc[p] = "rcLock"
    /\ SessionFree(id)
    /\ IF ~ValidIndex(index[p], heap[id].TotalChunks)
       THEN /\ Finish(p, "InvalidIndex")
            /\ UNCHANGED <<index, smu, files, raced>>
       ELSE IF id \notin DOMAIN files \/ ~createOK
       THEN /\ Finish(p, "IOFailure")
            /\ index' = [index EXCEPT ![p] = 0]
            /\ UNCHANGED <<smu, files, raced>>
       ELSE /\ files' = [files EXCEPT ![id] = Put(@, chunkPath(index[p]), <<>>)]
            /\ smu' = [smu EXCEPT ![id] = p]
            /\ raced' = raced \cup Assembling(id)
            /\ Goto(p, "rcCopy")
            /\ UNCHANGED index
    /\ UNCHANGED <<now, table, heap, ummu, shares, nextID, nextShare>>
    /\ UNCHANGED <<op, uploadID, fileSize, expiresIn, auth, gen, reader, chunkIdx, shareID, expiresAt>>
    /\ UNCHANGED <<sweep, created, sent, order, overlapped, completed, accepted, replaced>>

\* ReceiveChunk: io.Copy(f, data) of the request body, then either
\*   nil: the mask entry, LastActivity, the deferred Unlock, and the handler
\*        answers with ReceivedCount(uploadID) (which only reads); or
\*   an error (the body broke off, or a write failed): os.Remove(chunkPath),
\*        the deferred Unlock, the error.
\* A write to a file that RemoveAll has unlinked meanwhile succeeds and shows
\* nowhere.
ReceiveChunkCopy(p, body, copyOK) ==
    LET id == uploadID[p]
        f == chunkPath(index[p])
    IN
    /\ pc[p] = "rcCopy"
    /\ IF copyOK
       THEN /\ files' = IF HasChunk(id, index[p])
                        THEN [files EXCEPT ![id][f] = body]
                        ELSE files
            /\ heap' = [heap EXCEPT ![id] = MarkReceived(@, index[p], now)]
            /\ sent' = [sent EXCEPT ![id] = Put(@, index[p], body)]
            /\ order' = [order EXCEPT ![id] =
                            IF heap[id].ReceivedMask[index[p]] THEN @ ELSE Append(@, index[p])]
            /\ accepted' = [accepted EXCEPT ![id] = now]
            /\ replaced' = [replaced EXCEPT ![id] =
                               IF heap[id].ReceivedMask[index[p]] /\ sent[id][index[p]] # body
                               THEN @ \cup {index[p]} ELSE @]
            /\ Finish(p, "OK")
       ELSE /\ files' = IF HasChunk(id, index[p])
                        THEN [files EXCEPT ![id] = Drop(@, f)]
                        ELSE files
            /\ Finish(p, "IOFailure")
            /\ UNCHANGED <<heap, sent, order, accepted, replaced>>
    /\ smu' = [smu EXCEPT ![id] = NoProc]
    /\ index' = [index EXCEPT ![p] = 0]
    /\ raced' = raced \cup Assembling(id)
    /\ UNCHANGED <<now, table, ummu, shares, nextID, nextShare>>
    /\ UNCHANGED <<op, uploadID, fileSize, expiresIn, auth, gen, reader, chunkIdx, shareID, expiresAt>>
    /\ UNCHANGED <<sweep, created, overlapped, completed>>

\* --------------------------------- POST /api/upload/{uploadId}/complete
\* HandleUploadComplete: the path is parsed, GetSession(uploadID).
CompleteRequest(p, id) ==
    /\ pc[p] = "idle"
    /\ UmFree
    /\ op' = [op EXCEPT ![p] = "complete"]
    /\ uploadID' = [uploadID EXCEPT ![p] = id]
    /\ IF GetSession(id) = NoSession
       THEN /\ Finish(p, "NotFound")
            /\ UNCHANGED overlapped
       ELSE /\ Goto(p, "isComplete")
            /\ overlapped' = IF Completing(id) # {} THEN overlapped \cup {id} ELSE overlapped
    /\ UNCHANGED <<shared, sweep, created, sent, order, raced, completed, accepted, replaced>>
    /\ UNCHANGED <<fileSize, expiresIn, auth, gen, reader, index, chunkIdx, shareID, expiresAt>>

\* HandleUploadComplete: IsComplete(uploadID), which looks the session up
\* again (false when it is gone) and scans the mask under session.mu; then
\* CreateShare's GenerateID, MkdirAll(dir) and os.Create(filePath).  When
\* GenerateID or MkdirAll fails (or no identifier is left) there is nothing
\* to undo; when os.Create fails, os.RemoveAll(dir) takes the directory away
\* again.
CompleteCheck(p, open) ==
    LET id == uploadID[p]
        sid == nextShare + 1
        dir == [from |-> id, file |-> <<>>, meta |-> NoMeta]
    IN
    /\ pc[p] = "isComplete"
    /\ UmFree
    /\ GetSession(id) # NoSession => SessionFree(id)
    /\ IF ~IsCompleteOf(id)
       THEN /\ Finish(p, "Incomplete")
            /\ UNCHANGED <<nextShare, shareID, expiresAt, shares>>
       ELSE IF open = "mkdirFails" \/ nextShare >= MaxShares
       THEN /\ Finish(p, "IOFailure")
            /\ UNCHANGED <<nextShare, shareID, expiresAt, shares>>
       ELSE IF open = "createFails"
       THEN /\ shares' = RemoveAll(Put(shares, sid, dir), sid)
            /\ Finish(p, "IOFailure")
            /\ UNCHANGED <<nextShare, shareID, expiresAt>>
       ELSE /\ nextShare' = sid
            /\ shareID' = [shareID EXCEPT ![p] = sid]
            /\ expiresAt' = [expiresAt EXCEPT ![p] = ExpiryOf(heap[id].ExpiresIn, now)]
            /\ shares' = Put(shares, sid, dir)
            /\ Goto(p, "csRead")
    /\ UNCHANGED <<now, table, heap, smu, ummu, files, nextID>>
    /\ UNCHANGED <<op, uploadID, fileSize, expiresIn, auth, gen, reader, index, chunkIdx>>
    /\ UNCHANGED <<sweep, history>>

\* io.Copy(dst, reader) driving chunkReader.Read below the last chunk:
\* os.Open(chunkPath(chunkIdx)) and the chunk's bytes as they are on disk
\* now, then chunkIdx++.  A missing chunk file or a failed read or write ends
\* CreateShare: os.RemoveAll(dir) and the error.
CreateShareCopy(p, readOK) ==
    LET id == uploadID[p]
        sid == shareID[p]
        k == chunkIdx[p]
    IN
    /\ pc[p] = "csRead"
    /\ k < heap[id].TotalChunks
    /\ IF ~ReadChunk(id, k).err /\ readOK
       THEN /\ shares' = [shares EXCEPT ![sid].file = AppendChunk(@, ReadChunk(id, k).bytes)]
            /\ chunkIdx' = [chunkIdx EXCEPT ![p] = k + 1]
            /\ Goto(p, "csRead")
            /\ UNCHANGED <<shareID, expiresAt>>
       ELSE /\ shares' = RemoveAll(shares, sid)
            /\ Finish(p, IF ReadChunk(id, k).err THEN "StorageCorruption" ELSE "IOFailure")
            /\ chunkIdx' = [chunkIdx EXCEPT ![p] = 0]
            /\ shareID' = [shareID EXCEPT ![p] = 0]
            /\ expiresAt' = [expiresAt EXCEPT ![p] = NoExpiry]
    /\ UNCHANGED <<now, table, heap, smu, ummu, files, nextID, nextShare>>
    /\ UNCHANGED <<op, uploadID, fileSize, expiresIn, auth, gen, reader, index>>
    /\ UNCHANGED <<sweep, history>>

\* Faulty variant: the metadata gets the declared size of the session
CreateShareMetaDeclared(p, saveOK) ==
    LET id == uploadID[p]
        sid == shareID[p]
    IN
    /\ pc[p] = "csRead"
    /\ chunkIdx[p] >= heap[id].TotalChunks
    /\ IF saveOK
       THEN /\ shares' = [shares EXCEPT ![sid].meta = [FileSize  |-> NumOf(heap[id].FileSize),
                                                         ExpiresAt |-> expiresAt[p],
                                                         PasswordHash |-> NoHash]]
            /\ created' = [created EXCEPT ![id] = @ + 1]
            /\ Goto(p, "cleanup")
            /\ UNCHANGED <<shareID, expiresAt>>
       ELSE /\ shares' = RemoveAll(shares, sid)
            /\ Finish(p, "IOFailure")
            /\ shareID' = [shareID EXCEPT ![p] = 0]
            /\ expiresAt' = [expiresAt EXCEPT ![p] = NoExpiry]
            /\ UNCHANGED created
    /\ chunkIdx' = [chunkIdx EXCEPT ![p] = 0]
    /\ UNCHANGED <<now, table, heap, smu, ummu, files, nextID, nextShare>>
    /\ UNCHANGED <<op, uploadID, fileSize, expiresIn, auth, gen, reader, index>>
    /\ UNCHANGED <<sweep, sent, order, raced, overlapped, completed, accepted, replaced>>

\* Faulty variant: saveMeta is called while chunks are still being copied
CreateShareMetaEarly(p, saveOK) ==
    LET id == uploadID[p]
        sid == shareID[p]
        last == chunkIdx[p] >= heap[id].TotalChunks
    IN
    /\ pc[p] = "csRead"
    /\ IF saveOK
       THEN /\ shares' = [shares EXCEPT ![sid].meta = [FileSize  |-> Len(shares[sid].file),
                                                         ExpiresAt |-> expiresAt[p],
                                                         PasswordHash |-> NoHash]]
            /\ created' = [created EXCEPT ![id] = IF last THEN @ + 1 ELSE @]
            /\ Goto(p, IF last THEN "cleanup" ELSE "csRead")
            /\ chunkIdx' = [chunkIdx EXCEPT ![p] = IF last THEN 0 ELSE @]
            /\ UNCHANGED <<shareID, expiresAt>>
       ELSE /\ shares' = RemoveAll(shares, sid)
            /\ Finish(p, "IOFailure")
            /\ chunkIdx' = [chunkIdx EXCEPT ![p] = 0]
            /\ shareID' = [shareID EXCEPT ![p] = 0]
            /\ expiresAt' = [expiresAt EXCEPT ![p] = NoExpiry]
            /\ UNCHANGED created
    /\ UNCHANGED <<now, table, heap, smu, ummu, files, nextID, nextShare>>
    /\ UNCHANGED <<op, uploadID, fileSize, expiresIn, auth, gen, reader, index>>
    /\ UNCHANGED <<sweep, sent, order, raced, overlapped, completed, accepted, replaced>>

\* chunkReader.Read past the last chunk: io.EOF; CreateShare builds the
\* ShareMeta with FileSize = written and calls saveMeta.  On failure
\* os.RemoveAll(dir); on success the share is there and CreateShare returns.
CreateShareMeta(p, saveOK) ==
    LET id == uploadID[p]
        sid == shareID[p]
    IN
    /\ pc[p] = "csRead"
    /\ chunkIdx[p] >= heap[id].TotalChunks
    /\ IF saveOK
       THEN /\ shares' = [shares EXCEPT ![sid].meta = [FileSize  |-> Len(shares[sid].file),
                                                         ExpiresAt |-> expiresAt[p],
                                                         PasswordHash |-> NoHash]]
            /\ created' = [created EXCEPT ![id] = @ + 1]
            /\ Goto(p, "cleanup")
            /\ UNCHANGED <<shareID, expiresAt>>
       ELSE /\ shares' = RemoveAll(shares, sid)
            /\ Finish(p, "IOFailure")
            /\ shareID' = [shareID EXCEPT ![p] = 0]
            /\ expiresAt' = [expiresAt EXCEPT ![p] = NoExpiry]
            /\ UNCHANGED created
    /\ chunkIdx' = [chunkIdx EXCEPT ![p] = 0]
    /\ UNCHANGED <<now, table, heap, smu, ummu, files, nextID, nextShare>>
    /\ UNCHANGED <<op, uploadID, fileSize, expiresIn, auth, gen, reader, index>>
    /\ UNCHANGED <<sweep, sent, order, raced, overlapped, completed, accepted, replaced>>

\* HandleUpload, the single-shot path: the password of the form, hashed when
\* it is not empty, the expiry from the form, then
\* CreateShare's GenerateID, MkdirAll(dir) and os.Create(filePath), as in
\* CompleteCheck.
UploadRequest(p, open, policy, pw) ==
    LET sid == nextShare + 1
        dir == [from |-> 0, file |-> <<>>, meta |-> NoMeta]
    IN
    /\ pc[p] = "idle"
    /\ op' = [op EXCEPT ![p] = "upload"]
    /\ IF open = "mkdirFails" \/ nextShare >= MaxShares
       THEN /\ Finish(p, "IOFailure")
            /\ UNCHANGED <<nextShare, shareID, expiresAt, shares>>
       ELSE IF open = "createFails"
       THEN /\ shares' = RemoveAll(Put(shares, sid, dir), sid)
            /\ Finish(p, "IOFailure")
            /\ UNCHANGED <<nextShare, shareID, expiresAt>>
       ELSE /\ nextShare' = sid
            /\ shareID' = [shareID EXCEPT ![p] = sid]
            /\ expiresAt' = [expiresAt EXCEPT ![p] = ExpiryOf(policy, now)]
            /\ shares' = Put(shares, sid, dir)
            /\ Goto(p, "upCopy")
    /\ UNCHANGED <<now, table, heap, smu, ummu, files, nextID>>
    /\ password' = [password EXCEPT ![p] = pw]
    /\ UNCHANGED <<uploadID, fileSize, expiresIn, token, issued, asked, index, chunkIdx>>
    /\ UNCHANGED <<gen, reader>>
    /\ UNCHANGED <<sweep, history>>

\* HandleUpload with the identifier that GenerateID returns given as sid, any
\* 8 symbols that rand.Read yields: MkdirAll(dir) succeeds on a directory
\* that is there already and leaves what is in it, os.Create(filePath)
\* truncates a file that is there already; when os.Create fails
\* os.RemoveAll(dir).
UploadRequestAnyID(p, sid, open, policy, pw) ==
    LET dir == IF sid \in DOMAIN shares
               THEN [shares[sid] EXCEPT !.file = <<>>]
               ELSE [from |-> 0, file |-> <<>>, meta |-> NoMeta]
    IN
    /\ pc[p] = "idle"
    /\ op' = [op EXCEPT ![p] = "upload"]
    /\ IF open = "mkdirFails"
       THEN /\ Finish(p, "IOFailure")
            /\ UNCHANGED <<nextShare, shareID, expiresAt, shares>>
       ELSE IF open = "createFails"
       THEN /\ shares' = RemoveAll(shares, sid)
            /\ Finish(p, "IOFailure")
            /\ UNCHANGED <<nextShare, shareID, expiresAt>>
       ELSE /\ nextShare' = IF sid > nextShare THEN sid ELSE nextShare
            /\ shareID' = [shareID EXCEPT ![p] = sid]
            /\ expiresAt' = [expiresAt EXCEPT ![p] = ExpiryOf(policy, now)]
            /\ shares' = Put(shares, sid, dir)
            /\ Goto(p, "upCopy")
    /\ UNCHANGED <<now, table, heap, smu, ummu, files, nextID>>
    /\ password' = [password EXCEPT ![p] = pw]
    /\ UNCHANGED <<uploadID, fileSize, expiresIn, token, issued, asked, index, chunkIdx>>
    /\ UNCHANGED <<gen, reader>>
    /\ UNCHANGED <<sweep, history>>

\* HandleUpload's CreateShare from io.Copy(dst, file) on: the form's file is
\* written, then the ShareMeta with FileSize = written is saved.  On a
\* failure of either os.RemoveAll(dir).
UploadSave(p, body, ok) ==
    LET sid == shareID[p] IN
    /\ pc[p] = "upCopy"
    /\ IF ok
       THEN /\ shares' = [shares EXCEPT ![sid].file = body,
                                        ![sid].meta =
                                            [FileSize     |-> Len(body),
                                             ExpiresAt    |-> expiresAt[p],
                                             PasswordHash |->
                                                 IF password[p] # NoPassword
                                                 THEN HashPassword(password[p], Salt)
                                                 ELSE NoHash]]
            /\ Finish(p, "OK")
            /\ UNCHANGED <<shareID, expiresAt>>
       ELSE /\ shares' = RemoveAll(shares, sid)
            /\ Finish(p, "IOFailure")
            /\ shareID' = [shareID EXCEPT ![p] = 0]
            /\ expiresAt' = [expiresAt EXCEPT ![p] = NoExpiry]
    /\ UNCHANGED <<now, table, heap, smu, ummu, files, nextID, nextShare>>
    /\ UNCHANGED <<op, uploadID, fileSize, expiresIn, auth, gen, reader, index, chunkIdx>>
    /\ UNCHANGED <<sweep, history>>

\* HandleUnlock: GetShare(id), the password check, SetUnlockCookie.
UnlockRequest(p, sid, pw) ==
    /\ pc[p] = "idle"
    /\ op' = [op EXCEPT ![p] = "unlock"]
    /\ shareID' = [shareID EXCEPT ![p] = sid]
    /\ password' = [password EXCEPT ![p] = pw]
    /\ IF sid \notin DOMAIN shares
       THEN /\ Finish(p, "NotFound")
            /\ UNCHANGED <<token, issued>>
       ELSE IF shares[sid].meta = NoMeta
       THEN /\ Finish(p, "NotFound")
            /\ UNCHANGED <<token, issued>>
       ELSE IF shares[sid].meta.PasswordHash = NoHash
       THEN /\ Finish(p, "Unauthorized")
            /\ UNCHANGED <<token, issued>>
       ELSE IF ~VerifyPassword(pw, shares[sid].meta.PasswordHash)
       THEN /\ Finish(p, "Unauthorized")
            /\ UNCHANGED <<token, issued>>
       ELSE /\ token' = [token EXCEPT ![p] = UnlockCookie(sid, now)]
            /\ issued' = issued \cup {UnlockCookie(sid, now)}
            /\ Finish(p, "OK")
    /\ UNCHANGED <<shared, sweep, history, asked>>
    /\ UNCHANGED <<gen, reader>>
    /\ UNCHANGED <<uploadID, fileSize, expiresIn, index, chunkIdx, expiresAt>>

\* HandleDownload up to http.ServeFile: GetShare(id), and for a share with a
\* password hash Auth.IsUnlocked on the request's cookie.
DownloadRequest(p, sid, c) ==
    /\ pc[p] = "idle"
    /\ op' = [op EXCEPT ![p] = "download"]
    /\ shareID' = [shareID EXCEPT ![p] = sid]
    /\ token' = [token EXCEPT ![p] = c]
    /\ IF sid \notin DOMAIN shares
       THEN Finish(p, "NotFound")
       ELSE IF shares[sid].meta = NoMeta
       THEN Finish(p, "NotFound")
       ELSE IF shares[sid].meta.PasswordHash # NoHash
       THEN IF ~IsUnlocked(c, sid)
            THEN Finish(p, "Unauthorized")
            ELSE Finish(p, "OK")
       ELSE Finish(p, "OK")
    /\ UNCHANGED <<shared, sweep, history>>
    /\ UNCHANGED <<uploadID, fileSize, expiresIn, index, chunkIdx, expiresAt, password, issued, asked>>
    /\ UNCHANGED <<gen, reader>>

\* The cookies a client can send: none, one the server has set, such a one
\* under the name of another share or with another share's value, and one
\* signed with a key of the client's own.
Presentable ==
    {NoCookie}
    \cup issued
    \cup {[c EXCEPT !.name = sid] : c \in issued, sid \in ShareIDs}
    \cup {[c EXCEPT !.value = <<sid, c.value[2]>>] : c \in issued, sid \in ShareIDs}
    \cup {[name |-> sid, value |-> <<sid, 0>>, sig |-> Sign(Guess, <<sid, 0>>)] : sid \in ShareIDs}

\* GenerateID: rand.Read into 8 bytes, which can fail, then every byte
\* replaced by alphabet[byte % 62].
GenerateID(bytes, readOK) ==
    /\ idBytes' = bytes
    /\ idSymbols' = IF readOK THEN [i \in 1..Len(bytes) |-> SymbolOf(bytes[i])] ELSE <<>>
    /\ UNCHANGED <<shared, sweep, history>>
    /\ UNCHANGED <<pc, op, uploadID, fileSize, expiresIn, index, chunkIdx, shareID, expiresAt, result, auth, reader>>

\* AssembleFile up to its chunkReader literal: the session is looked up and
\* IsComplete has answered true.
ReaderNew(p, id) ==
    /\ pc[p] = "idle"
    /\ UmFree
    /\ GetSession(id) # NoSession
    /\ SessionFree(id)
    /\ IsCompleteOf(id)
    /\ op' = [op EXCEPT ![p] = "read"]
    /\ uploadID' = [uploadID EXCEPT ![p] = id]
    /\ reader' = [reader EXCEPT ![p] = NewChunkReader(id)]
    /\ Goto(p, "reading")
    /\ UNCHANGED <<shared, sweep, history>>
    /\ UNCHANGED <<fileSize, expiresIn, auth, gen, index, chunkIdx, shareID, expiresAt>>

\* One call of chunkReader.Read by the holder of the reader, as io.Copy makes
\* them; a holder may call again after io.EOF.
ReaderRead(p, readOK) ==
    /\ pc[p] = "reading"
    /\ reader' = [reader EXCEPT ![p] = Read(@, readOK)]
    /\ UNCHANGED <<shared, sweep, history>>
    /\ UNCHANGED <<pc, op, uploadID, fileSize, expiresIn, index, chunkIdx, shareID, expiresAt, result, auth, gen>>

\* The holder drops the reader once a Read has returned an error or io.EOF
ReaderDrop(p) ==
    /\ pc[p] = "reading"
    /\ reader[p].err \notin {"none", "nil"}
    /\ reader' = [reader EXCEPT ![p] = NoReader]
    /\ Finish(p, IF reader[p].err = "EOF" THEN "OK" ELSE "IOFailure")
    /\ UNCHANGED <<shared, sweep, history>>
    /\ UNCHANGED <<op, uploadID, fileSize, expiresIn, index, chunkIdx, shareID, expiresAt, auth, gen>>

\* um.Cleanup(id) called on its own, as a caller of the UploadManager does to
\* abandon an upload: for an identifier that InitUpload has returned, or for
\* one that GenerateID never yields.
CleanupCall(p, id) ==
    /\ pc[p] = "idle"
    /\ IF id \in IDs THEN heap[id] # NoSession ELSE id = UnknownID
    /\ op' = [op EXCEPT ![p] = "discard"]
    /\ uploadID' = [uploadID EXCEPT ![p] = id]
    /\ Goto(p, "cleanup")
    /\ UNCHANGED <<shared, sweep, history>>
    /\ UNCHANGED <<fileSize, expiresIn, auth, gen, reader, index, chunkIdx, shareID, expiresAt>>

\* Faulty variant: the handler responds without calling Cleanup
CleanupSkipped(p) ==
    /\ pc[p] = "cleanup"
    /\ Finish(p, "OK")
    /\ UNCHANGED <<shared, sweep, history>>
    /\ UNCHANGED <<op, uploadID, fileSize, expiresIn, auth, gen, reader, index, chunkIdx, shareID, expiresAt>>

\* Cleanup: delete(um.sessions, uploadID) under um.mu.
CleanupDelete(p) ==
    /\ pc[p] = "cleanup"
    /\ UmFree
    /\ table' = DeleteSession(table, uploadID[p])
    /\ Goto(p, "cleanupRm")
    /\ UNCHANGED <<now, heap, smu, ummu, files, shares, nextID, nextShare>>
    /\ UNCHANGED <<op, uploadID, fileSize, expiresIn, auth, gen, reader, index, chunkIdx, shareID, expiresAt>>
    /\ UNCHANGED <<sweep, history>>

\* Cleanup: os.RemoveAll(um.sessionDir(uploadID)); the handler responds.
CleanupRemove(p) ==
    /\ pc[p] = "cleanupRm"
    /\ files' = RemoveAll(files, uploadID[p])
    /\ completed' = IF op[p] = "complete" THEN completed \cup {uploadID[p]} ELSE completed
    /\ Finish(p, "OK")
    /\ UNCHANGED <<now, table, heap, smu, ummu, shares, nextID, nextShare>>
    /\ UNCHANGED <<op, uploadID, fileSize, expiresIn, auth, gen, reader, index, chunkIdx, shareID, expiresAt>>
    /\ UNCHANGED <<sweep, created, sent, order, raced, overlapped, accepted, replaced>>

\* The response is written; the goroutine serves the next request.
Respond(p) ==
    /\ pc[p] = "done"
    /\ pc' = [pc EXCEPT ![p] = "idle"]
    /\ op' = [op EXCEPT ![p] = "none"]
    /\ result' = [result EXCEPT ![p] = "none"]
    /\ uploadID' = [uploadID EXCEPT ![p] = 0]
    /\ fileSize' = [fileSize EXCEPT ![p] = Nat64(0)]
    /\ expiresIn' = [expiresIn EXCEPT ![p] = EmptyPolicy]
    /\ password' = [password EXCEPT ![p] = NoPassword]
    /\ token' = [token EXCEPT ![p] = NoCookie]
    /\ UNCHANGED <<issued, asked>>
    /\ UNCHANGED <<gen, reader>>
    /\ index' = [index EXCEPT ![p] = 0]
    /\ chunkIdx' = [chunkIdx EXCEPT ![p] = 0]
    /\ shareID' = [shareID EXCEPT ![p] = 0]
    /\ expiresAt' = [expiresAt EXCEPT ![p] = NoExpiry]
    /\ raced' = raced \ {p}
    /\ UNCHANGED <<shared, sweep, created, sent, order, overlapped, completed, accepted, replaced>>

\* ------------------------------------------------- cleanupLoop's goroutine
\* The ticker of cleanupLoop delivers a tick; a tick that finds one waiting
\* in the channel is dropped.
SessionTicker ==
    /\ ~swTick
    /\ swTicks < MaxTicks
    /\ swTick' = TRUE
    /\ swTicks' = swTicks + 1
    /\ UNCHANGED <<shared, locals, history>>
    /\ UNCHANGED <<swpc, swNow, swTodo, sessionSweeps, shareWorker, sweepLog>>

\* cleanupLoop takes a tick from its ticker (timer), or the ticker is left
\* out and a sweep can begin at any time; then cleanupStale: um.mu.Lock(),
\* now := time.Now(), the range over um.sessions.
SweepBegin(timer) ==
    /\ swpc = "idle"
    /\ UmFree
    /\ IF timer
       THEN /\ swTick
            /\ swTick' = FALSE
            /\ sessionSweeps' = sessionSweeps + 1
            /\ UNCHANGED swTicks
       ELSE UNCHANGED sessTimer
    /\ ummu' = Sweeper
    /\ swNow' = now
    /\ swTodo' = table
    /\ swpc' = "loop"
    /\ UNCHANGED <<now, table, heap, smu, files, shares, nextID, nextShare>>
    /\ swFailed' = {}
    /\ UNCHANGED <<locals, history, shareWorker, shFailed, shExpired>>

\* One iteration of the range loop, in the map's order: the test of
\* session.LastActivity (read without session.mu) and, for a stale session,
\* delete and os.RemoveAll.
SweepVisit(id, rmOK) ==
    /\ swpc = "loop"
    /\ id \in swTodo
    /\ swTodo' = swTodo \ {id}
    /\ IF Stale(swNow, heap[id].LastActivity)
       THEN /\ table' = DeleteSession(table, id)
            /\ files' = IF rmOK THEN RemoveAll(files, id) ELSE files
            /\ swFailed' = IF rmOK THEN swFailed ELSE swFailed \cup {id}
       ELSE UNCHANGED <<table, files, swFailed>>
    /\ UNCHANGED <<now, heap, smu, ummu, shares, nextID, nextShare>>
    /\ UNCHANGED <<swpc, swNow, sessTimer, shareWorker, shFailed, shExpired>>
    /\ UNCHANGED <<locals, history>>

\* The loop is over: the deferred um.mu.Unlock().
SweepEnd ==
    /\ swpc = "loop"
    /\ swTodo = {}
    /\ ummu' = NoProc
    /\ swpc' = "idle"
    /\ UNCHANGED <<now, table, heap, smu, files, shares, nextID, nextShare>>
    /\ UNCHANGED <<swNow, swTodo, sessTimer, shareWorker, sweepLog>>
    /\ UNCHANGED <<locals, history>>

\* ------------------------------------------- startCleanupWorker's goroutine
\* The worker's ticker delivers a tick; a tick that finds one waiting in the
\* channel is dropped.
ShareTicker ==
    /\ ~shTick
    /\ shTicks < MaxTicks
    /\ shTick' = TRUE
    /\ shTicks' = shTicks + 1
    /\ UNCHANGED <<shared, locals, history>>
    /\ UNCHANGED <<swpc, swNow, swTodo, sessTimer, shpc, shNow, shTodo, shareSweeps, sweepLog>>

\* Faulty variant: a share without ExpiresAt counts as expired
ExpiredOrNil(e, t) == IF e = NoExpiry THEN TRUE ELSE e[1] < t

\* meta.ExpiresAt != nil && meta.ExpiresAt.Before(now)
Expired(e, t) == e # NoExpiry /\ e[1] < t

\* The shares whose metadata is on disk with an ExpiresAt before t.
ExpiredShares(t) ==
    {sid \in DOMAIN shares :
        /\ shares[sid].meta # NoMeta
        /\ Expired(shares[sid].meta.ExpiresAt, t)}

\* Faulty variant: the worker waits for its first tick before it sweeps
ShareSweepBeginLate(atStart) ==
    /\ IF atStart
       THEN /\ shpc = "start"
            /\ shpc' = "wait"
            /\ UNCHANGED <<shTick, shTodo, shNow, shareSweeps, shFailed, shExpired>>
       ELSE /\ shpc = "wait"
            /\ shTick
            /\ shTick' = FALSE
            /\ shpc' = "loop"
            /\ shTodo' = DOMAIN shares
            /\ shNow' = now
            /\ shareSweeps' = shareSweeps + 1
            /\ shFailed' = {}
            /\ shExpired' = ExpiredShares(now)
    /\ UNCHANGED <<shared, locals, history>>
    /\ UNCHANGED <<swpc, swNow, swTodo, sessTimer, shTicks, swFailed>>

\* The worker calls CleanupExpired, right after its start (atStart) or for a
\* tick taken from its ticker: os.ReadDir(sharesDir), now := time.Now().
ShareSweepBegin(atStart) ==
    /\ IF atStart
       THEN /\ shpc = "start"
            /\ UNCHANGED shTick
       ELSE /\ shpc = "wait"
            /\ shTick
            /\ shTick' = FALSE
    /\ shpc' = "loop"
    /\ shTodo' = DOMAIN shares
    /\ shNow' = now
    /\ shareSweeps' = shareSweeps + 1
    /\ shFailed' = {}
    /\ shExpired' = ExpiredShares(now)
    /\ UNCHANGED <<shared, locals, history>>
    /\ UNCHANGED <<swpc, swNow, swTodo, sessTimer, shTicks, swFailed>>

\* Faulty variant: an error on one entry ends the loop
ShareSweepVisitAborts(sid, outcome) ==
    /\ shpc = "loop"
    /\ sid \in shTodo
    /\ IF sid \in ExpiredShares(shNow) /\ outcome # "ok"
       THEN /\ shTodo' = {}
            /\ shFailed' = shFailed \cup {sid}
            /\ UNCHANGED shares
       ELSE /\ shTodo' = shTodo \ {sid}
            /\ shares' = IF sid \in ExpiredShares(shNow)
                         THEN RemoveAll(shares, sid) ELSE shares
            /\ UNCHANGED shFailed
    /\ UNCHANGED <<now, table, heap, smu, ummu, files, nextID, nextShare>>
    /\ UNCHANGED <<locals, history>>
    /\ UNCHANGED <<swpc, swNow, swTodo, sessTimer, shpc, shNow, shTick, shTicks, shareSweeps>>
    /\ UNCHANGED <<swFailed, shExpired>>

\* Faulty variant: a directory without metadata is deleted
ShareSweepVisitNoMeta(sid, outcome) ==
    /\ shpc = "loop"
    /\ sid \in shTodo
    /\ shTodo' = shTodo \ {sid}
    /\ shares' = IF sid \in DOMAIN shares
                 THEN IF shares[sid].meta = NoMeta
                      THEN RemoveAll(shares, sid)
                      ELSE IF Expired(shares[sid].meta.ExpiresAt, shNow)
                      THEN RemoveAll(shares, sid)
                      ELSE shares
                 ELSE shares
    /\ UNCHANGED <<now, table, heap, smu, ummu, files, nextID, nextShare>>
    /\ UNCHANGED <<locals, history>>
    /\ UNCHANGED <<swpc, swNow, swTodo, sessTimer, shpc, shNow, shTick, shTicks, shareSweeps>>
    /\ UNCHANGED <<swFailed, shFailed, shExpired>>

\* One iteration of CleanupExpired's loop: GetShare(entry.Name()), which
\* finds no metadata for a share still being written or already gone, or
\* fails to read or parse it ("readFails"); DeleteShare for a share whose
\* ExpiresAt is before now, which can fail ("deleteFails"). Every outcome
\* goes on to the next entry.
ShareSweepVisit(sid, outcome) ==
    /\ shpc = "loop"
    /\ sid \in shTodo
    /\ shTodo' = shTodo \ {sid}
    /\ IF sid \in DOMAIN shares
       THEN IF shares[sid].meta # NoMeta
            THEN IF outcome = "readFails"
                 THEN /\ shFailed' = shFailed \cup {sid}
                      /\ UNCHANGED shares
                 ELSE IF Expired(shares[sid].meta.ExpiresAt, shNow)
                      THEN IF outcome = "deleteFails"
                           THEN /\ shFailed' = shFailed \cup {sid}
                                /\ UNCHANGED shares
                           ELSE /\ shares' = RemoveAll(shares, sid)
                                /\ UNCHANGED shFailed
                      ELSE UNCHANGED <<shares, shFailed>>
            ELSE UNCHANGED <<shares, shFailed>>
       ELSE UNCHANGED <<shares, shFailed>>
    /\ UNCHANGED <<now, table, heap, smu, ummu, files, nextID, nextShare>>
    /\ UNCHANGED <<locals, history>>
    /\ UNCHANGED <<swpc, swNow, swTodo, sessTimer, shpc, shNow, shTick, shTicks, shareSweeps>>
    /\ UNCHANGED <<swFailed, shExpired>>

\* CleanupExpired returns; the worker waits for the next tick.
ShareSweepEnd ==
    /\ shpc = "loop"
    /\ shTodo = {}
    /\ shpc' = "wait"
    /\ UNCHANGED <<shared, locals, history>>
    /\ UNCHANGED <<swpc, swNow, swTodo, sessTimer, shNow, shTodo, shTick, shTicks, shareSweeps, sweepLog>>

\* ------------------------------------------------------ process restart
\* The process ends at any point and is started again: every goroutine and
\* everything in memory is gone, NewUploadManager makes an empty um.sessions
\* and starts cleanupLoop, startCleanupWorker starts the share worker; the
\* uploads and shares directories are as the old process left them.  Only
\* restarts that lose a session, or one that InitUpload is making, are taken.
Restart ==
    /\ table # {} \/ \E p \in Procs : pc[p] = "initInsert"
    /\ table' = {}
    /\ heap' = [id \in IDs |-> NoSession]
    /\ smu' = [id \in IDs |-> NoProc]
    /\ ummu' = NoProc
    /\ pc' = [p \in Procs |-> "idle"]
    /\ op' = [p \in Procs |-> "none"]
    /\ result' = [p \in Procs |-> "none"]
    /\ uploadID' = [p \in Procs |-> 0]
    /\ fileSize' = [p \in Procs |-> Nat64(0)]
    /\ expiresIn' = [p \in Procs |-> EmptyPolicy]
    /\ password' = [p \in Procs |-> NoPassword]
    /\ token' = [p \in Procs |-> NoCookie]
    /\ index' = [p \in Procs |-> 0]
    /\ chunkIdx' = [p \in Procs |-> 0]
    /\ shareID' = [p \in Procs |-> 0]
    /\ expiresAt' = [p \in Procs |-> NoExpiry]
    /\ reader' = [p \in Procs |-> NoReader]
    /\ swpc' = "idle"
    /\ swNow' = 0
    /\ swTodo' = {}
    /\ swTick' = FALSE
    /\ shpc' = "start"
    /\ shNow' = 0
    /\ shTodo' = {}
    /\ shTick' = FALSE
    /\ UNCHANGED <<now, files, shares, nextID, nextShare, issued, asked, gen>>
    /\ UNCHANGED <<swTicks, sessionSweeps, shTicks, shareSweeps, sweepLog, history>>

\* ------------------------------------------------------- specifications
Next ==
    \/ \E p \in Procs, size \in FileSizes, ok \in BOOLEAN : InitRequest(p, size, ok, {1}, DefaultPolicy, NoPassword)
    \/ \E p \in Procs : InitInsert(p)
    \/ \E p \in Procs, i \in Indexes : ChunkRequest(p, 1, i)
    \/ \E p \in Procs, ok \in BOOLEAN : ReceiveChunkCreate(p, ok)
    \/ \E p \in Procs, body \in ChunkData, ok \in BOOLEAN : ReceiveChunkCopy(p, body, ok)
    \/ \E p \in Procs : CompleteRequest(p, 1)
    \/ \E p \in Procs, open \in OpenOutcomes : CompleteCheck(p, open)
    \/ \E p \in Procs, ok \in BOOLEAN : CreateShareCopy(p, ok)
    \/ \E p \in Procs, ok \in BOOLEAN : CreateShareMeta(p, ok)
    \/ \E p \in Procs : CleanupDelete(p)
    \/ \E p \in Procs : CleanupRemove(p)
    \/ \E p \in Procs : Respond(p)

Spec == Init /\ [][Next]_vars

NextLife ==
    \/ Tick
    \/ \E p \in Procs, size \in SmallSizes, ok \in BOOLEAN : InitRequest(p, size, ok, {1}, DefaultPolicy, NoPassword)
    \/ \E p \in Procs : InitInsert(p)
    \/ \E p \in Procs, i \in Indexes : ChunkRequest(p, 1, i)
    \/ \E p \in Procs, ok \in BOOLEAN : ReceiveChunkCreate(p, ok)
    \/ \E p \in Procs, body \in OneBody, ok \in BOOLEAN : ReceiveChunkCopy(p, body, ok)
    \/ \E p \in Procs : CompleteRequest(p, 1)
    \/ \E p \in Procs, open \in OpenOutcomes : CompleteCheck(p, open)
    \/ \E p \in Procs, ok \in BOOLEAN : CreateShareCopy(p, ok)
    \/ \E p \in Procs, ok \in BOOLEAN : CreateShareMeta(p, ok)
    \/ \E p \in Procs : CleanupDelete(p)
    \/ \E p \in Procs : CleanupRemove(p)
    \/ \E p \in Procs : Respond(p)
    \/ SweepBegin(FALSE)
    \/ \E id \in IDs : SweepVisit(id, TRUE)
    \/ SweepEnd

SpecLife == Init /\ [][NextLife]_vars

NextSweep ==
    \/ Tick
    \/ \E size \in SmallSizes, ok \in BOOLEAN : InitRequest(1, size, ok, IDs, DefaultPolicy, NoPassword)
    \/ InitInsert(1)
    \/ \E id \in IDs, i \in Indexes : ChunkRequest(1, id, i)
    \/ \E ok \in BOOLEAN : ReceiveChunkCreate(1, ok)
    \/ \E body \in OneBody, ok \in BOOLEAN : ReceiveChunkCopy(1, body, ok)
    \/ \E id \in IDs : CompleteRequest(1, id)
    \/ \E open \in OpenOutcomes : CompleteCheck(1, open)
    \/ \E ok \in BOOLEAN : CreateShareCopy(1, ok)
    \/ \E ok \in BOOLEAN : CreateShareMeta(1, ok)
    \/ CleanupDelete(1)
    \/ CleanupRemove(1)
    \/ Respond(1)
    \/ SweepBegin(FALSE)
    \/ \E id \in IDs : SweepVisit(id, TRUE)
    \/ SweepEnd

SpecSweep == Init /\ [][NextSweep]_vars

NextDiscard ==
    \/ \E p \in Procs, size \in SmallSizes, ok \in BOOLEAN : InitRequest(p, size, ok, IDs, DefaultPolicy, NoPassword)
    \/ \E p \in Procs : InitInsert(p)
    \/ \E p \in Procs, id \in IDs, i \in Indexes : ChunkRequest(p, id, i)
    \/ \E p \in Procs, ok \in BOOLEAN : ReceiveChunkCreate(p, ok)
    \/ \E p \in Procs, body \in OneBody, ok \in BOOLEAN : ReceiveChunkCopy(p, body, ok)
    \/ \E p \in Procs, id \in IDs : CompleteRequest(p, id)
    \/ \E p \in Procs, open \in OpenOutcomes : CompleteCheck(p, open)
    \/ \E p \in Procs, ok \in BOOLEAN : CreateShareCopy(p, ok)
    \/ \E p \in Procs, ok \in BOOLEAN : CreateShareMeta(p, ok)
    \/ \E p \in Procs, id \in IDs \cup {UnknownID} : CleanupCall(p, id)
    \/ \E p \in Procs : CleanupDelete(p)
    \/ \E p \in Procs : CleanupRemove(p)
    \/ \E p \in Procs : Respond(p)

SpecDiscard == Init /\ [][NextDiscard]_vars

NextWorkers ==
    \/ Tick
    \/ InitRequest(1, Nat64(1), TRUE, IDs, DefaultPolicy, NoPassword)
    \/ InitInsert(1)
    \/ \E id \in IDs : ChunkRequest(1, id, 0)
    \/ ReceiveChunkCreate(1, TRUE)
    \/ \E body \in OneBody : ReceiveChunkCopy(1, body, TRUE)
    \/ \E id \in IDs : CompleteRequest(1, id)
    \/ CompleteCheck(1, "ok")
    \/ CreateShareCopy(1, TRUE)
    \/ CreateShareMeta(1, TRUE)
    \/ CleanupDelete(1)
    \/ CleanupRemove(1)
    \/ Respond(1)
    \/ SessionTicker
    \/ SweepBegin(TRUE)
    \/ \E id \in IDs : SweepVisit(id, TRUE)
    \/ SweepEnd
    \/ ShareTicker
    \/ \E atStart \in BOOLEAN : ShareSweepBegin(atStart)
    \/ \E sid \in ShareIDs : ShareSweepVisit(sid, "ok")
    \/ ShareSweepEnd

SpecWorkers == Init /\ [][NextWorkers]_vars

NextBestEffort ==
    \/ Tick
    \/ InitRequest(1, Nat64(1), TRUE, IDs, DefaultPolicy, NoPassword)
    \/ InitInsert(1)
    \/ UploadRequest(1, "ok", DefaultPolicy, NoPassword)
    \/ \E body \in OneBody : UploadSave(1, body, TRUE)
    \/ Respond(1)
    \/ SweepBegin(FALSE)
    \/ \E id \in IDs, rmOK \in BOOLEAN : SweepVisit(id, rmOK)
    \/ SweepEnd
    \/ ShareTicker
    \/ \E atStart \in BOOLEAN : ShareSweepBegin(atStart)
    \/ \E sid \in ShareIDs, outcome \in SweepOutcomes : ShareSweepVisit(sid, outcome)
    \/ ShareSweepEnd

SpecBestEffort == Init /\ [][NextBestEffort]_vars

NextExpiry ==
    \/ Tick
    \/ \E policy \in SweptPolicies : UploadRequest(1, "ok", policy, NoPassword)
    \/ \E body \in OneBody : UploadSave(1, body, TRUE)
    \/ Respond(1)
    \/ ShareTicker
    \/ \E atStart \in BOOLEAN : ShareSweepBegin(atStart)
    \/ \E sid \in ShareIDs : ShareSweepVisit(sid, "ok")
    \/ ShareSweepEnd

SpecExpiry == Init /\ [][NextExpiry]_vars

NextPolicy ==
    \/ Tick
    \/ \E policy \in Policies : InitRequest(1, Nat64(1), TRUE, IDs, policy, NoPassword)
    \/ InitInsert(1)
    \/ \E id \in IDs : ChunkRequest(1, id, 0)
    \/ ReceiveChunkCreate(1, TRUE)
    \/ \E body \in OneBody : ReceiveChunkCopy(1, body, TRUE)
    \/ \E id \in IDs : CompleteRequest(1, id)
    \/ CompleteCheck(1, "ok")
    \/ CreateShareCopy(1, TRUE)
    \/ CreateShareMeta(1, TRUE)
    \/ CleanupDelete(1)
    \/ CleanupRemove(1)
    \/ Respond(1)

SpecPolicy == Init /\ [][NextPolicy]_vars

NextAuth ==
    \/ \E pw \in Passwords \cup {NoPassword} : UploadRequest(1, "ok", NeverPolicy, pw)
    \/ \E body \in OneBody : UploadSave(1, body, TRUE)
    \/ \E p \in Procs, sid \in ShareIDs, pw \in Passwords \cup {NoPassword} : UnlockRequest(p, sid, pw)
    \/ \E p \in Procs, sid \in ShareIDs, c \in Presentable : DownloadRequest(p, sid, c)
    \/ \E p \in Procs : Respond(p)

SpecAuth == Init /\ [][NextAuth]_vars

NextChunkedAuth ==
    \/ \E pw \in Passwords \cup {NoPassword} : InitRequest(1, Nat64(1), TRUE, IDs, NeverPolicy, pw)
    \/ InitInsert(1)
    \/ \E id \in IDs : ChunkRequest(1, id, 0)
    \/ ReceiveChunkCreate(1, TRUE)
    \/ \E body \in OneBody : ReceiveChunkCopy(1, body, TRUE)
    \/ \E id \in IDs : CompleteRequest(1, id)
    \/ CompleteCheck(1, "ok")
    \/ CreateShareCopy(1, TRUE)
    \/ CreateShareMeta(1, TRUE)
    \/ CleanupDelete(1)
    \/ CleanupRemove(1)
    \/ \E sid \in ShareIDs, pw \in Passwords : UnlockRequest(1, sid, pw)
    \/ \E sid \in ShareIDs, c \in Presentable : DownloadRequest(1, sid, c)
    \/ Respond(1)

SpecChunkedAuth == Init /\ [][NextChunkedAuth]_vars

NextID ==
    \E bytes \in RandomBytes, readOK \in BOOLEAN : GenerateID(bytes, readOK)

SpecID == Init /\ [][NextID]_vars

NextReader ==
    \/ \E size \in {Nat64(1), Nat64(defaultChunkSize + 1)} :
           InitRequest(1, size, TRUE, IDs, NeverPolicy, NoPassword)
    \/ InitUploadCall(1, Nat64(0), TRUE, IDs, NeverPolicy)
    \/ InitInsert(1)
    \/ \E id \in IDs, i \in 0..MaxIndex : ChunkRequest(1, id, i)
    \/ ReceiveChunkCreate(1, TRUE)
    \/ \E body \in ReaderBodies : ReceiveChunkCopy(1, body, TRUE)
    \/ \E id \in IDs : ReaderNew(1, id)
    \/ \E readOK \in BOOLEAN : ReaderRead(1, readOK)
    \/ ReaderDrop(1)
    \/ Respond(1)

SpecReader == Init /\ [][NextReader]_vars

NextCompleteDiscard ==
    \/ Tick
    \/ \E p \in Procs : InitRequest(p, Nat64(defaultChunkSize + 1), TRUE, {1}, NeverPolicy, NoPassword)
    \/ \E p \in Procs : InitInsert(p)
    \/ \E p \in Procs, i \in 0..MaxIndex : ChunkRequest(p, 1, i)
    \/ \E p \in Procs : ReceiveChunkCreate(p, TRUE)
    \/ \E p \in Procs, body \in OneBody : ReceiveChunkCopy(p, body, TRUE)
    \/ \E p \in Procs : CompleteRequest(p, 1)
    \/ \E p \in Procs : CompleteCheck(p, "ok")
    \/ \E p \in Procs : CreateShareCopy(p, TRUE)
    \/ \E p \in Procs, ok \in BOOLEAN : CreateShareMeta(p, ok)
    \/ \E p \in Procs : CleanupDelete(p)
    \/ \E p \in Procs : CleanupRemove(p)
    \/ \E p \in Procs : Respond(p)
    \/ SweepBegin(FALSE)
    \/ \E id \in IDs : SweepVisit(id, TRUE)
    \/ SweepEnd

SpecCompleteDiscard == Init /\ [][NextCompleteDiscard]_vars

\* One step of the cleanupLoop goroutine
SweeperStep ==
    \/ SweepBegin(FALSE)
    \/ \E id \in IDs, rmOK \in BOOLEAN : SweepVisit(id, rmOK)
    \/ SweepEnd

\* One step of a request goroutine that is inside a handler
HandlerStep ==
    \/ InitInsert(1)
    \/ \E ok \in BOOLEAN : ReceiveChunkCreate(1, ok)
    \/ \E body \in OneBody, ok \in BOOLEAN : ReceiveChunkCopy(1, body, ok)
    \/ \E open \in OpenOutcomes : CompleteCheck(1, open)
    \/ \E ok \in BOOLEAN : CreateShareCopy(1, ok)
    \/ \E ok \in BOOLEAN : CreateShareMeta(1, ok)
    \/ CleanupDelete(1)
    \/ CleanupRemove(1)

NextExpunge ==
    \/ Tick
    \/ \E ok \in BOOLEAN : InitRequest(1, Nat64(1), ok, IDs, NeverPolicy, NoPassword)
    \/ \E id \in IDs : ChunkRequest(1, id, 0)
    \/ \E id \in IDs : CompleteRequest(1, id)
    \/ Respond(1)
    \/ HandlerStep
    \/ SweeperStep

\* The cleanupLoop goroutine keeps running: its ticker keeps firing and the
\* scheduler starves neither it nor a request goroutine.
SpecExpunge ==
    Init /\ [][NextExpunge]_vars /\ WF_vars(SweeperStep) /\ WF_vars(HandlerStep)

NextAnyID ==
    \/ \E p \in Procs, sid \in ShareIDs, open \in OpenOutcomes :
           UploadRequestAnyID(p, sid, open, NeverPolicy, NoPassword)
    \/ \E p \in Procs, body \in ChunkData, ok \in BOOLEAN : UploadSave(p, body, ok)
    \/ \E p \in Procs : Respond(p)

SpecAnyID == Init /\ [][NextAnyID]_vars

NextServe ==
    \/ Tick
    \/ \E policy \in {DefaultPolicy, NeverPolicy} : UploadRequest(1, "ok", policy, NoPassword)
    \/ \E body \in OneBody : UploadSave(1, body, TRUE)
    \/ \E sid \in ShareIDs : DownloadRequest(1, sid, NoCookie)
    \/ Respond(1)
    \/ ShareTicker
    \/ \E atStart \in BOOLEAN : ShareSweepBegin(atStart)
    \/ \E sid \in ShareIDs : ShareSweepVisit(sid, "ok")
    \/ ShareSweepEnd

SpecServe == Init /\ [][NextServe]_vars

\* One step of the cleanupLoop goroutine, its os.RemoveAll succeeding
SweeperRuns ==
    \/ SweepBegin(FALSE)
    \/ \E id \in IDs : SweepVisit(id, TRUE)
    \/ SweepEnd

NextRestart ==
    \/ Tick
    \/ InitRequest(1, Nat64(1), TRUE, IDs, NeverPolicy, NoPassword)
    \/ \E id \in IDs : ChunkRequest(1, id, 0)
    \/ \E id \in IDs : CompleteRequest(1, id)
    \/ Respond(1)
    \/ HandlerStep
    \/ SweeperRuns
    \/ Restart

\* After a restart, as before it, the cleanupLoop goroutine keeps running and
\* no request goroutine is starved.
SpecRestart ==
    Init /\ [][NextRestart]_vars /\ WF_vars(SweeperRuns) /\ WF_vars(HandlerStep)

NextTwoSessions ==
    \/ \E p \in Procs : InitRequest(p, Nat64(1), TRUE, IDs, NeverPolicy, NoPassword)
    \/ \E p \in Procs : InitInsert(p)
    \/ \E p \in Procs, id \in IDs : ChunkRequest(p, id, 0)
    \/ \E p \in Procs : ReceiveChunkCreate(p, TRUE)
    \/ \E p \in Procs, body \in OneBody : ReceiveChunkCopy(p, body, TRUE)
    \/ \E p \in Procs, id \in IDs : CompleteRequest(p, id)
    \/ \E p \in Procs : CompleteCheck(p, "ok")
    \/ \E p \in Procs : CreateShareCopy(p, TRUE)
    \/ \E p \in Procs : CreateShareMeta(p, TRUE)
    \/ \E p \in Procs : CleanupDelete(p)
    \/ \E p \in Procs : CleanupRemove(p)
    \/ \E p \in Procs : Respond(p)
    \/ SweepBegin(FALSE)
    \/ \E id \in IDs : SweepVisit(id, TRUE)
    \/ SweepEnd

SpecTwoSessions == Init /\ [][NextTwoSessions]_vars

NextInit ==
    \/ \E p \in Procs, size \in InitSizes, ok \in BOOLEAN : InitRequest(p, size, ok, IDs, DefaultPolicy, NoPassword)
    \/ \E p \in Procs, size \in InitSizes, ok \in BOOLEAN : InitUploadCall(p, size, ok, IDs, DefaultPolicy)
    \/ \E p \in Procs : InitInsert(p)
    \/ \E p \in Procs : Respond(p)

SpecInit == Init /\ [][NextInit]_vars

\* ----------------------------------------------------------------- claims
\* chunk 0, chunk 1, ..., chunk n-1 of f, joined
RECURSIVE Concat(_, _)
Concat(f, n) == IF n = 0 THEN <<>> ELSE Concat(f, n - 1) \o f[n - 1]

\* p's CreateShare returns its ShareMeta in this step
ShareCreatedBy(p) == pc[p] = "csRead" /\ pc'[p] = "cleanup"

\* C1: in whatever order the indices of a session were uploaded, a completion
\* that no chunk write ran into creates a share whose bytes are chunk 0,
\* chunk 1, ..., chunk totalChunks-1 as last uploaded, in index order.
C1_AssembledInIndexOrder ==
    [][\A p \in Procs :
          ShareCreatedBy(p) /\ p \notin raced =>
              shares'[shareID[p]].file
                  = Concat(sent[uploadID[p]], heap[uploadID[p]].TotalChunks)]_vars

\* C1 witness: a two-chunk session whose chunk 1 arrived before chunk 0, with
\* different bodies, and the share made of it.
C1_Witness ==
    \E sid \in DOMAIN shares :
        LET id == shares[sid].from IN
        /\ shares[sid].meta # NoMeta
        /\ heap[id].TotalChunks = 2
        /\ order[id] = <<1, 0>>
        /\ sent[id][0] # sent[id][1]
        /\ shares[sid].file = sent[id][0] \o sent[id][1]

\* C2 as claimed: no session ever yields more than one share.
C2_AtMostOneShare == \A id \in IDs : created[id] <= 1

\* C2 amended: a session yields more than one share only if two completion
\* requests for it were in progress at the same time, and it has yielded one
\* once a completion of it has answered with success.
C2_OneShareUnlessOverlap ==
    /\ \A id \in IDs : created[id] > 1 => id \in overlapped
    /\ \A p \in Procs :
          pc[p] = "done" /\ op[p] = "complete" /\ result[p] = "OK"
              => created[uploadID[p]] >= 1

\* C2 witness: one completion succeeded, a later one for the same ID found
\* nothing, and the session yielded exactly one share.
C2_Witness ==
    \E p, q \in Procs :
        /\ pc[p] = "done" /\ op[p] = "complete" /\ result[p] = "OK"
        /\ pc[q] = "done" /\ op[q] = "complete" /\ result[q] = "NotFound"
        /\ uploadID[q] = uploadID[p]
        /\ uploadID[p] \notin overlapped
        /\ created[uploadID[p]] = 1

\* p starts a chunk or completion request in this step
Starts(p) == pc[p] = "idle" /\ op'[p] \in {"chunk", "complete"}

\* C3: once a completion has created the share and finished Cleanup, the
\* session stays out of the table, its scratch directory stays away, and
\* every chunk or completion request that starts afterwards finds no session.
C3_GoneForGood ==
    [][/\ \A id \in completed' : id \notin table' /\ id \notin DOMAIN files'
       /\ \A p \in Procs :
             Starts(p) /\ uploadID'[p] \in completed
                 => pc'[p] = "done" /\ result'[p] = "NotFound"]_vars

\* C3 witness: after the completion of a session answered OK, a chunk request
\* for it was answered NotFound.
C3_Witness ==
    \E p, q \in Procs :
        /\ pc[p] = "done" /\ op[p] = "complete" /\ result[p] = "OK"
        /\ uploadID[p] \in completed
        /\ pc[q] = "done" /\ op[q] = "chunk" /\ result[q] = "NotFound"
        /\ uploadID[q] = uploadID[p]

\* Some index of session object s has not been received
MissingChunk(s) == \E i \in 0..(s.TotalChunks - 1) : ~s.ReceivedMask[i]

\* C4: a completion of a session with an index missing answers Incomplete
\* and changes nothing: no share, the session still in the table, its mask
\* and chunk files as they were; with no index missing it does not answer
\* Incomplete.
C4_IncompleteChangesNothing ==
    [][\A p \in Procs :
          pc[p] = "isComplete" /\ pc'[p] # "isComplete" /\ uploadID[p] \in table =>
              IF MissingChunk(heap[uploadID[p]])
              THEN /\ result'[p] = "Incomplete"
                   /\ shares' = shares /\ created' = created
                   /\ table' = table /\ heap' = heap /\ files' = files
              ELSE result'[p] # "Incomplete"]_vars

\* C4 witness: a completion was answered Incomplete, and the same session has
\* since been completed into a share.
C4_Witness ==
    \E p \in Procs :
        /\ pc[p] = "done" /\ op[p] = "complete" /\ result[p] = "Incomplete"
        /\ created[uploadID[p]] = 1

\* C5: a ReceiveChunk whose index is below 0 or not below totalChunks ends
\* with InvalidIndex, and no step of it changes a session object or a chunk
\* file.
C5_InvalidIndexChangesNothing ==
    [][\A p \in Procs :
          /\ pc[p] = "rcLock" /\ pc'[p] # "rcLock"
          /\ (index[p] < 0 \/ index[p] >= heap[uploadID[p]].TotalChunks)
          => /\ pc'[p] = "done" /\ result'[p] = "InvalidIndex"
             /\ heap' = heap /\ files' = files /\ table' = table]_vars

\* C5 witness: a received chunk is in place, and two requests for the session
\* were refused, one for index -1 and one for index totalChunks.
C5_Witness ==
    \E p, q \in Procs :
        /\ pc[p] = "done" /\ result[p] = "InvalidIndex" /\ index[p] < 0
        /\ pc[q] = "done" /\ result[q] = "InvalidIndex" /\ uploadID[q] = uploadID[p]
        /\ index[q] = heap[uploadID[q]].TotalChunks
        /\ ReceivedCount(heap[uploadID[p]]) = 1

\* C6 as claimed: when the write of chunk i fails, the chunk file is gone and
\* the mask entry of i is unset afterwards, whatever it was before.
C6_FailedWriteUnsetsMask ==
    [][\A p \in Procs :
          pc[p] = "rcCopy" /\ result'[p] = "IOFailure" =>
              /\ ~(uploadID[p] \in DOMAIN files'
                     /\ chunkPath(index[p]) \in DOMAIN files'[uploadID[p]])
              /\ ~heap'[uploadID[p]].ReceivedMask[index[p]]]_vars

\* C7 as claimed (in part): a ReceiveChunk that finishes after its session
\* was discarded does not report success.
C7_LateChunkNeverSucceeds ==
    [][\A p \in Procs :
          pc[p] = "rcCopy" /\ uploadID[p] \notin table => result'[p] # "OK"]_vars

SweepReads(id) == swpc = "loop" /\ id \in swTodo /\ id \notin swTodo'

\* C9 as claimed: whoever reads or writes a session's mask or LastActivity
\* does so with the session's lock: IsComplete and the sweep read them only
\* when nobody else holds session.mu, ReceiveChunk writes them holding it.
C9_FieldsOnlyUnderLock ==
    [][/\ \A p \in Procs :
             pc[p] = "isComplete" /\ pc'[p] # "isComplete" /\ uploadID[p] \in table
                 => smu[uploadID[p]] = NoProc
       /\ \A p \in Procs :
             pc[p] = "rcCopy" /\ pc'[p] # "rcCopy" => smu[uploadID[p]] = p
       /\ \A id \in IDs : SweepReads(id) => smu[id] = NoProc]_vars

ChunkAcceptedBy(p) == pc[p] = "rcCopy" /\ result'[p] = "OK"

\* C11: a ReceiveChunk that returns nil sets the session's LastActivity to
\* the time of that step; no other step changes the LastActivity of a session
\* object once InitUpload has made it; and a sweep never discards a session
\* that accepted a chunk less than uploadTimeout ago.
C11_LastActivityOnAcceptOnly ==
    [][/\ \A p \in Procs :
             ChunkAcceptedBy(p) => heap'[uploadID[p]].LastActivity = now
       /\ \A id \in IDs :
             heap[id] # NoSession /\ heap'[id].LastActivity # heap[id].LastActivity
                 => \E p \in Procs : ChunkAcceptedBy(p) /\ uploadID[p] = id
       /\ \A id \in IDs :
             SweepReads(id) /\ accepted[id] >= 0 /\ now - accepted[id] < uploadTimeout
                 => id \in table']_vars

\* C11 witness: two sessions made on day 0 were swept on day 2; the one that
\* got nothing is gone, the one that accepted a chunk on day 2 is there.
C11_Witness ==
    /\ swpc = "loop" /\ swTodo = {} /\ swNow = 2
    /\ 2 \notin table /\ heap[2] # NoSession /\ accepted[2] < 0 /\ 2 \notin completed
    /\ 1 \in table /\ accepted[1] = 2 /\ heap[1].LastActivity = 2

C13_CompleteIffAllReceived ==
    \A id \in IDs :
        IF id \in table
        THEN /\ IsCompleteOf(id) <=>
                    \A i \in 0..(heap[id].TotalChunks - 1) : heap[id].ReceivedMask[i]
             /\ IsCompleteOf(id) <=> ReceivedCountOf(id) = heap[id].TotalChunks
             /\ ReceivedCountOf(id) = Len(order[id])
        ELSE ReceivedCountOf(id) = 0 /\ ~IsCompleteOf(id)

\* C13 witness: a two-chunk session with one chunk received is not complete
\* while a request brings the other chunk, and identifier 2 is unknown.
C13_Witness ==
    /\ 1 \in table /\ heap[1].TotalChunks = 2
    /\ ReceivedCountOf(1) = 1 /\ ~IsCompleteOf(1) /\ order[1] = <<1>>
    /\ \E p \in Procs : pc[p] = "rcCopy" /\ uploadID[p] = 1 /\ index[p] = 0
    /\ 2 \notin table /\ ReceivedCountOf(2) = 0

\* p's ReceiveChunk, for an index that was received before, takes a step
ReuploadStep(p) ==
    /\ pc[p] \in {"rcLock", "rcCopy"} /\ pc'[p] # pc[p]
    /\ index[p] \in DOMAIN heap[uploadID[p]].ReceivedMask
    /\ heap[uploadID[p]].ReceivedMask[index[p]]

\* C14: a ReceiveChunk for an index already received leaves every other chunk
\* file, the mask and ReceivedCount as they are, and when it returns nil the
\* file of that index holds the new bytes; a share assembled after bytes were
\* replaced holds, for each index, the bytes of the last successful write.
C14_ReuploadReplacesOneChunk ==
    [][\A p \in Procs :
          LET id == uploadID[p] IN
          /\ ReuploadStep(p) =>
                /\ heap'[id].ReceivedMask = heap[id].ReceivedMask
                /\ ReceivedCount(heap'[id]) = ReceivedCount(heap[id])
                /\ id \in DOMAIN files =>
                      \A j \in DOMAIN files[id] \ {index[p]} :
                          j \in DOMAIN files'[id] /\ files'[id][j] = files[id][j]
                /\ result'[p] = "OK" /\ id \in DOMAIN files =>
                      files'[id][index[p]] = sent'[id][index[p]]
          /\ ShareCreatedBy(p) /\ p \notin raced /\ replaced[id] # {} =>
                shares'[shareID[p]].file = Concat(sent[id], heap[id].TotalChunks)]_vars

\* C14 witness: chunk 0 of a two-chunk session was written again with other
\* bytes, and the share made from the session holds the new bytes of chunk 0
\* followed by chunk 1.
C14_Witness ==
    \E sid \in DOMAIN shares :
        LET id == shares[sid].from IN
        /\ shares[sid].meta # NoMeta
        /\ heap[id].TotalChunks = 2
        /\ replaced[id] = {0}
        /\ sent[id][0] = <<2>> /\ sent[id][1] = <<1>>
        /\ shares[sid].file = <<2, 1>>

\* p's InitUpload goes past its MkdirAll in this step
InitUploadEnds(p) == pc[p] = "initInsert" /\ pc'[p] # "initInsert"

\* C15 as claimed: InitUpload with a size s >= 0, once its directory is made,
\* puts a session into the table whose TotalChunks is at least 1, is
\* ceil(s / defaultChunkSize) for s > 0 and 1 for s = 0, and whose mask has
\* exactly TotalChunks entries, all unset.
C15_TotalChunksIsCeiling ==
    [][\A p \in Procs :
          InitUploadEnds(p) =>
              LET id == uploadID[p]
                  s == fileSize[p]
              IN
              /\ result'[p] = "OK" /\ id \in table'
              /\ heap'[id].TotalChunks >= 1
              /\ DOMAIN heap'[id].ReceivedMask = 0..(heap'[id].TotalChunks - 1)
              /\ \A i \in DOMAIN heap'[id].ReceivedMask : ~heap'[id].ReceivedMask[i]
              /\ IsZero64(s) => heap'[id].TotalChunks = 1
              /\ ~IsZero64(s) /\ s[3] = 0 /\ s[4] = 0 =>
                    /\ (heap'[id].TotalChunks - 1) * defaultChunkSize < NumOf(s)
                    /\ NumOf(s) <= heap'[id].TotalChunks * defaultChunkSize]_vars

\* C16: an init request whose fileSize is zero or negative is answered with
\* a validation error at once, and adds no session, makes no scratch
\* directory and uses up no identifier.
C16_BadSizeRejected ==
    [][\A p \in Procs :
          /\ pc[p] = "idle" /\ op'[p] = "init"
          /\ (fileSize'[p] = <<0, 0, 0, 0>> \/ fileSize'[p][4] >= 8)
          => /\ pc'[p] = "done" /\ result'[p] = "ValidationError"
             /\ table' = table /\ heap' = heap /\ files' = files
             /\ nextID' = nextID /\ shares' = shares]_vars

\* C16 witness: an init request with size -1 and one with size 0 were both
\* refused, and there is no session and no directory.
C16_Witness ==
    \E p, q \in Procs :
        /\ pc[p] = "done" /\ op[p] = "init" /\ result[p] = "ValidationError"
        /\ fileSize[p] = Neg64(Nat64(1))
        /\ pc[q] = "done" /\ op[q] = "init" /\ result[q] = "ValidationError"
        /\ fileSize[q] = Nat64(0)
        /\ table = {} /\ files = <<>> /\ nextID = 0

\* p's chunkReader turns to a chunk whose file is not there
ReadsMissingChunk(p) ==
    /\ pc[p] = "csRead" /\ pc'[p] # "idle"
    /\ (pc'[p] # "csRead" \/ chunkIdx'[p] # chunkIdx[p])
    /\ chunkIdx[p] < heap[uploadID[p]].TotalChunks
    /\ ~(uploadID[p] \in DOMAIN files /\ chunkIdx[p] \in DOMAIN files[uploadID[p]])

\* C17: when the assembly comes to an index whose chunk file is missing, the
\* read fails there with the missing-chunk error, the completion ends with
\* that error and its share is removed; a share gets its metadata only after
\* every index below TotalChunks has been read.
C17_MissingChunkFailsAssembly ==
    [][\A p \in Procs :
          /\ ReadsMissingChunk(p) =>
                /\ pc'[p] = "done" /\ result'[p] = "StorageCorruption"
                /\ shareID[p] \notin DOMAIN shares'
                /\ created' = created
          /\ ShareCreatedBy(p) => chunkIdx[p] = heap[uploadID[p]].TotalChunks]_vars

\* C17 witness: the mask of a two-chunk session in the table is full, a chunk
\* file of it is missing, a completion has ended with the missing-chunk error
\* and there is no share.
C17_Witness ==
    \E p \in Procs :
        /\ pc[p] = "done" /\ op[p] = "complete" /\ result[p] = "StorageCorruption"
        /\ uploadID[p] \in table /\ heap[uploadID[p]].TotalChunks = 2
        /\ IsCompleteOf(uploadID[p])
        /\ HasChunk(uploadID[p], 0) /\ ~HasChunk(uploadID[p], 1)
        /\ shares = <<>>

\* p's completion ends with an error of CreateShare in this step
CreateShareFails(p) ==
    /\ pc[p] \in {"isComplete", "csRead"} /\ pc'[p] = "done"
    /\ result'[p] \in {"IOFailure", "StorageCorruption"}

C19_TableEntryHasDirectory == \A id \in table : id \in DOMAIN files

\* C19 witness: a completion's Cleanup has taken the session out of the table
\* and not yet removed its directory, which still holds the chunk.
C19_Witness ==
    \E p \in Procs :
        /\ pc[p] = "cleanupRm"
        /\ uploadID[p] \notin table
        /\ HasChunk(uploadID[p], 0)
        /\ now > 0

\* The two background workers are at rest with nothing pending, and their
\* tickers have delivered the same number of ticks.
WorkersAtRest ==
    /\ shpc = "wait" /\ ~shTick
    /\ swpc = "idle" /\ ~swTick
    /\ shTicks = swTicks

\* C20 as stated: the sweeper fires once at start and on every tick, and each
\* firing performs both sweeps, so that the workers at rest have made as many
\* session sweeps as share sweeps.
C20_EachFiringDoesBoth == WorkersAtRest => sessionSweeps = shareSweeps

\* C20: the share sweep runs once at the worker's start and once for every tick
\* its own ticker has delivered; the session sweep runs once for every tick
\* its own ticker has delivered, and not at start.
C20_SweepsFollowOwnTimers ==
    /\ shareSweeps = (IF shpc = "start" THEN 0 ELSE 1)
                     + shTicks - (IF shTick THEN 1 ELSE 0)
    /\ sessionSweeps = swTicks - (IF swTick THEN 1 ELSE 0)

\* C20 witness: after the start and one tick of each ticker the share sweep
\* has run twice and deleted the expired share of session 1, and the session
\* sweep has run once and discarded the stale session 2.
C20_Witness ==
    /\ WorkersAtRest
    /\ shTicks = 1
    /\ shareSweeps = 2 /\ sessionSweeps = 1
    /\ nextShare = 1 /\ shares = <<>>
    /\ 1 \in completed
    /\ heap[2] # NoSession /\ 2 \notin table /\ 2 \notin completed

\* C21: in both sweeps a failure on one entry does not end the loop.  Of the
\* shares that were expired when CleanupExpired began, every one the loop has
\* passed is gone unless its own handling failed; of the sessions cleanupStale
\* has passed, none that is left in the table is stale.
C21_SweepIsBestEffort ==
    /\ shpc = "loop" =>
          \A sid \in (shExpired \ shTodo) \ shFailed : sid \notin DOMAIN shares
    /\ swpc = "loop" =>
          \A id \in table \ swTodo : ~Stale(swNow, heap[id].LastActivity)

\* C21 witness: both loops are over; the handling of share 1 and the removal
\* of session 1's directory failed, and the expired share 2 and the stale
\* session 2 are gone all the same.
C21_Witness ==
    /\ shpc = "loop" /\ shTodo = {}
    /\ shExpired = {1, 2} /\ shFailed = {1}
    /\ DOMAIN shares = {1}
    /\ swpc = "loop" /\ swTodo = {}
    /\ swFailed = {1}
    /\ table = {} /\ DOMAIN files = {1}
    /\ heap[2] # NoSession

ClaimedExpiry(policy, t) ==
    IF policy = NeverPolicy THEN NoExpiry
    ELSE IF policy \in {EmptyPolicy, DefaultPolicy} THEN <<t + defaultExpiry>>
    ELSE <<t + Atoi(policy).n>>

\* The policies claim C23 speaks of: "", "default", "never" and N days
NamedPolicy(policy) ==
    \/ policy \in {EmptyPolicy, DefaultPolicy, NeverPolicy}
    \/ ~Atoi(policy).err /\ Atoi(policy).n > 0

\* C23 as claimed: the share a completion at time t writes gets the expiry
\* its session's policy stands for at t, and keeps it into the metadata.
C23_ExpiryResolvedAtCompletion ==
    [][\A p \in Procs :
          /\ pc[p] = "isComplete" /\ pc'[p] = "csRead"
                 /\ NamedPolicy(heap[uploadID[p]].ExpiresIn) =>
                 expiresAt'[p] = ClaimedExpiry(heap[uploadID[p]].ExpiresIn, now)
          /\ pc[p] = "csRead" /\ pc'[p] = "cleanup" =>
                 shares'[shareID[p]].meta.ExpiresAt = expiresAt[p]]_vars

\* C24: the FileSize in a share's metadata is the number of bytes in the
\* share's file, whatever size the session declared.
C24_FileSizeIsBytesWritten ==
    \A sid \in DOMAIN shares :
        shares[sid].meta # NoMeta => shares[sid].meta.FileSize = Len(shares[sid].file)

\* C24 witness: a session that declared defaultChunkSize + 1 bytes was sent
\* two chunks of one byte each; its share holds 2 bytes and says so.
C24_Witness ==
    \E sid \in DOMAIN shares :
        /\ shares[sid].meta # NoMeta
        /\ heap[shares[sid].from].FileSize = Nat64(defaultChunkSize + 1)
        /\ Len(shares[sid].file) = 2
        /\ shares[sid].meta.FileSize = 2

\* The share has metadata with a password hash.
Protected(sid) ==
    /\ sid \in DOMAIN shares
    /\ shares[sid].meta # NoMeta
    /\ shares[sid].meta.PasswordHash # NoHash

C26_ChunkedShareProtected ==
    [][\A sid \in DOMAIN shares' :
          /\ shares'[sid].meta # NoMeta
          /\ shares'[sid].from \in IDs
          /\ asked[shares'[sid].from] # NoPassword
          => /\ shares'[sid].meta.PasswordHash # NoHash
             /\ \A p \in Procs :
                    /\ pc[p] = "idle" /\ op'[p] = "download"
                    /\ shareID'[p] = sid /\ token'[p] \notin issued
                    => result'[p] = "Unauthorized"]_vars

\* The byte values GenerateID turns into the symbol s
BytesOf(s) == {b \in Bytes : SymbolOf(b) = s}

\* C27 as claimed: an identifier has 8 symbols of the alphabet, and every
\* symbol of the alphabet is the image of as many byte values as the symbols
\* of the identifier are.
C27_SymbolsUniform ==
    idSymbols # <<>> =>
        /\ Len(idSymbols) = IDLen
        /\ \A i \in 1..IDLen :
               /\ \E a \in 1..AlphabetLen : Alphabet[a] = idSymbols[i]
               /\ \A a \in 1..AlphabetLen :
                      Cardinality(BytesOf(Alphabet[a])) = Cardinality(BytesOf(idSymbols[i]))
\* The indices 0, 1, ..., n-1 in this order
UpTo(n) == [i \in 1..n |-> i - 1]

\* The chunk files of session id as they are on disk, joined in index order
OnDisk(id) == Concat([i \in 0..(heap[id].TotalChunks - 1) |-> files[id][chunkPath(i)]],
                     heap[id].TotalChunks)

\* What the Read calls of p's chunkReader have done so far is in order
ReaderSound(p) ==
    LET r == reader[p]
        total == heap[r.uploadID].TotalChunks
    IN
    pc[p] = "reading" =>
        /\ r.opened = UpTo(Len(r.opened))
        /\ Len(r.opened) <= total
        /\ Cardinality(r.open) <= 1
        /\ r.err = "EOF" =>
              /\ r.n = 0
              /\ r.opened = UpTo(total)
              /\ r.open = {}
              /\ r.out = OnDisk(r.uploadID)

\* C28: the chunk reader opens the chunk files in the order 0, 1, ...,
\* totalChunks-1 without skipping or repeating an index, never has more than
\* one of them open, returns end-of-stream only after every chunk has been
\* opened, read to its end and closed, has then returned exactly the bytes of
\* the chunks in index order (an empty chunk adding none), and a read after
\* end-of-stream returns end-of-stream again with no bytes.
C28_ReaderInOrderOneOpen ==
    [][\A p \in Procs :
          /\ ReaderSound(p)'
          /\ pc[p] = "reading" /\ pc'[p] = "reading" /\ reader[p].err = "EOF" =>
                /\ reader'[p].err = "EOF"
                /\ reader'[p].out = reader[p].out
                /\ reader'[p].opened = reader[p].opened]_vars

\* A session of two chunks whose chunk 0 is empty has been read to
\* end-of-stream and read once more: both files were opened, the bytes of
\* chunk 1 were returned in two reads.
C28_Witness ==
    \E p \in Procs :
        /\ pc[p] = "reading"
        /\ reader[p].eofs = MaxEOFs
        /\ reader[p].opened = <<0, 1>>
        /\ files[reader[p].uploadID][chunkPath(0)] = <<>>
        /\ reader[p].out = <<2, 3>>

\* A ReceiveChunk for index i of session id is in progress
Receiving(id, i) ==
    \E q \in Procs : /\ op[q] = "chunk"
                     /\ pc[q] \notin {"idle", "done"}
                     /\ uploadID[q] = id
                     /\ index[q] = i

\* C29: for every session in the table and every index that no ReceiveChunk
\* is working on, a set mask entry means that the chunk file of that index
\* exists and holds the bytes of the last successful write to it.
C29_MaskedChunkOnDisk ==
    \A id \in table : \A i \in DOMAIN heap[id].ReceivedMask :
        heap[id].ReceivedMask[i] /\ ~Receiving(id, i) =>
            /\ HasChunk(id, i)
            /\ files[id][chunkPath(i)] = sent[id][i]

\* The files that n whole chunk bodies, one per index, make up
WholeChunks(n) == {Concat(f, n) : f \in [0..(n - 1) -> ChunkData]}

\* C30: when a ReceiveChunk overwrites an index of a complete session while a
\* completion of that session assembles the share, the share that completion
\* creates holds at every index one whole chunk body, the previous or the new
\* one, never an empty or truncated chunk.
C30_RacedChunkWhole ==
    [][\A p \in Procs :
          ShareCreatedBy(p) /\ p \in raced =>
              shares'[shareID[p]].file \in WholeChunks(heap[uploadID[p]].TotalChunks)]_vars

\* p's completion request ends in this step with an error
CompletionFails(p) ==
    /\ op[p] = "complete"
    /\ pc[p] # "done" /\ pc'[p] = "done"
    /\ result'[p] # "OK"

\* C31: however a completion is interleaved with a discard of its session
\* (cleanupStale, or the Cleanup of another completion), it either fails and
\* leaves no share of its own, or the share it makes visible holds all
\* totalChunks chunks in index order; a share of fewer chunks never gets its
\* metadata.
C31_NoPrefixShare ==
    [][\A p \in Procs :
          /\ CompletionFails(p) =>
                /\ shareID[p] \notin DOMAIN shares'
                /\ created' = created
          /\ \A sid \in DOMAIN shares' :
                /\ shares'[sid].meta # NoMeta
                /\ sid \notin DOMAIN shares \/ shares[sid].meta = NoMeta
                /\ sid = shareID[p] /\ p \notin raced
                => /\ Len(shares'[sid].file) = heap[shares'[sid].from].TotalChunks
                   /\ shares'[sid].file
                          = Concat(sent[shares'[sid].from], heap[shares'[sid].from].TotalChunks)]_vars

\* C31 witness: a completion of a session with both chunks received had
\* begun its share when the session was discarded under it; it failed on a
\* chunk file that was gone and no share without metadata is left.
C31_Witness ==
    \E p \in Procs :
        /\ pc[p] = "done" /\ op[p] = "complete" /\ result[p] = "StorageCorruption"
        /\ heap[uploadID[p]].TotalChunks = 2
        /\ \A i \in 0..1 : heap[uploadID[p]].ReceivedMask[i]
        /\ uploadID[p] \notin table
        /\ nextShare >= 1
        /\ \A sid \in DOMAIN shares : shares[sid].meta # NoMeta

\* Session id is out of the table and its scratch directory is off the disk
Expunged(id) == id \notin table /\ id \notin DOMAIN files

\* C32: with the sweeper firing again and again, a session in the table whose
\* last accepted chunk write lies more than the timeout back is eventually out
\* of the table with its scratch directory deleted, unless a chunk write is
\* accepted for it before; and once a session is expunged no file of it comes
\* back.
C32_EverySessionExpunged ==
    /\ \A id \in IDs :
          (id \in table /\ Stale(now, heap[id].LastActivity))
              ~> (Expunged(id) \/ (id \in table /\ ~Stale(now, heap[id].LastActivity)))
    /\ [][\A id \in IDs :
             heap[id] # NoSession /\ Expunged(id) => Expunged(id)']_vars

\* The fields of a session object that InitUpload sets and nothing else writes
Fixed(s) == [FileSize |-> s.FileSize, ChunkSize |-> s.ChunkSize,
             TotalChunks |-> s.TotalChunks, ExpiresIn |-> s.ExpiresIn]

Visible(sid) == sid \in DOMAIN shares /\ shares[sid].meta # NoMeta

\* A CreateShare is still copying into the file of share sid
Writing(sid) == \E p \in Procs : pc[p] \in {"csRead", "upCopy"} /\ shareID[p] = sid

\* C34: a share that GetShare returns has all of its bytes: no CreateShare is
\* still copying into its file, the file's length is the metadata's FileSize,
\* and the file does not change while the share stays visible.
C34_VisibleShareIsWhole ==
    [][\A sid \in ShareIDs :
          Visible(sid)' =>
              /\ ~Writing(sid)'
              /\ Len(shares'[sid].file) = shares'[sid].meta.FileSize
              /\ Visible(sid) => shares'[sid].file = shares[sid].file]_vars

\* C34 witness: one share is visible with its two bytes while the share of
\* another completion, one byte copied so far, has no metadata.
C34_Witness ==
    \E sid, other \in ShareIDs :
        /\ Visible(sid) /\ shares[sid].meta.FileSize = 2
        /\ other \in DOMAIN shares /\ ~Visible(other) /\ Writing(other)
        /\ Len(shares[other].file) = 1

\* C35: a share sweep that runs while CreateShare is writing a share leaves
\* that share's directory as it is (a directory without metadata is skipped),
\* and when CreateShare returns success the share is there with its metadata
\* and all of its bytes.
C35_SweepSparesShareInCreation ==
    [][/\ \A sid \in DOMAIN shares :
             Writing(sid) /\ Writing(sid)' =>
                 sid \in DOMAIN shares' /\ shares'[sid] = shares[sid]
       /\ \A p \in Procs :
             pc[p] = "upCopy" /\ result'[p] = "OK" =>
                 /\ Visible(shareID[p])'
                 /\ Len(shares'[shareID[p]].file) = shares'[shareID[p]].meta.FileSize
                 /\ Len(shares'[shareID[p]].file) > 0]_vars

\* C35 witness: a CleanupExpired that began after CreateShare had made the
\* share's directory has visited that directory, and the share, still without
\* metadata, is there.
C35_Witness ==
    \E p \in Procs :
        /\ pc[p] = "upCopy"
        /\ expiresAt[p] = <<defaultExpiry>>
        /\ shpc = "loop" /\ shNow >= 1
        /\ shareID[p] \notin shTodo
        /\ shareID[p] \in DOMAIN shares
        /\ ~Visible(shareID[p])

\* C36: a CreateShare takes an identifier that no existing share directory
\* has, and no step of it, a failing one included, changes or removes a share
\* that was visible before.
C36_NewShareNeverReplaces ==
    [][/\ \A p \in Procs :
             pc[p] = "idle" /\ pc'[p] = "upCopy" => shareID'[p] \notin DOMAIN shares
       /\ \A sid \in ShareIDs :
             Visible(sid) => Visible(sid)' /\ shares'[sid] = shares[sid]]_vars

\* C37: a download request is never answered with the file of a share whose
\* ExpiresAt is before the time of the request, whether a share sweep has run
\* since or not.
C37_ExpiredShareNotServed ==
    [][\A p \in Procs :
          /\ pc[p] = "idle" /\ op'[p] = "download" /\ result'[p] = "OK"
          => ~Expired(shares[shareID'[p]].meta.ExpiresAt, now)]_vars

\* The scratch directory of id is on disk and no session object goes with
\* it: a directory that a process before the last restart has left
Orphaned(id) ==
    /\ id \in DOMAIN files
    /\ heap[id] = NoSession
    /\ \A p \in Procs : ~(pc[p] = "initInsert" /\ uploadID[p] = id)

\* C38: a scratch directory that the sessions lost in a restart have left on
\* disk is eventually deleted, the stale-session sweep firing again and again.
C38_OrphanedScratchDeleted ==
    \A id \in IDs : Orphaned(id) ~> (id \notin DOMAIN files)

\* The next step of q's request on its session can be taken now
CanGoOn(q) ==
    CASE pc[q] = "rcLock"     -> ENABLED ReceiveChunkCreate(q, TRUE)
      [] pc[q] = "rcCopy"     -> ENABLED ReceiveChunkCopy(q, <<1>>, TRUE)
      [] pc[q] = "isComplete" -> ENABLED CompleteCheck(q, "ok")
      [] OTHER                -> TRUE

\* C39: while a ReceiveChunk on one session is in progress, its disk write
\* included, it holds neither um.mu nor the lock of any other session: with
\* the sweeper not holding um.mu, a request goroutine can start GetSession on
\* any other session, and ReceiveChunk and IsComplete on another session can
\* take their next step.
C39_UnrelatedSessionsDontContend ==
    \A p, q \in Procs :
        /\ p # q
        /\ pc[p] \in {"rcLock", "rcCopy"}
        /\ ummu = NoProc
        => /\ \A id \in IDs \ {uploadID[p]} : smu[id] # p
           /\ pc[q] = "idle" =>
                 \A id \in IDs \ {uploadID[p]} :
                     /\ ENABLED ChunkRequest(q, id, 0)
                     /\ ENABLED CompleteRequest(q, id)
           /\ pc[q] # "idle" /\ uploadID[q] # uploadID[p] => CanGoOn(q)

\* C39 witness: two goroutines are copying chunk bytes at the same time, each
\* into its own session.
C39_Witness ==
    \E p, q \in Procs :
        /\ pc[p] = "rcCopy" /\ pc[q] = "rcCopy"
        /\ uploadID[p] # uploadID[q]
        /\ smu[uploadID[p]] = p /\ smu[uploadID[q]] = q

====
